---- MODULE Spec2Model ----
(***************************************************************************)
(* Health-survey backend: the meal-plan workflow of survey/views.py        *)
(* (SubmitAnswers, SelectMeals, UpgradeToMonth, MealPlanRetrieve and the   *)
(* three Paystack views) over the MealPlan / SurveySubmission / Payment    *)
(* tables of survey/models.py, together with the deterministic catalog and *)
(* plan generators of survey/utils/ai.py.                                  *)
(***************************************************************************)
EXTENDS Integers, Sequences, FiniteSets, TLC

(***************************************************************************)
(* Python string primitives used by the generators: str.lower, s[0].upper, *)
(* the substring test `kw in name`, and the list membership `x in xs`.     *)
(***************************************************************************)
CharAt(s, i) == SubSeq(s, i, i)

LowerOf ==
    ("A" :> "a") @@ ("B" :> "b") @@ ("C" :> "c") @@ ("D" :> "d") @@ ("E" :> "e") @@ ("F" :> "f") @@
    ("G" :> "g") @@ ("H" :> "h") @@ ("I" :> "i") @@ ("J" :> "j") @@ ("K" :> "k") @@ ("L" :> "l") @@
    ("M" :> "m") @@ ("N" :> "n") @@ ("O" :> "o") @@ ("P" :> "p") @@ ("Q" :> "q") @@ ("R" :> "r") @@
    ("S" :> "s") @@ ("T" :> "t") @@ ("U" :> "u") @@ ("V" :> "v") @@ ("W" :> "w") @@ ("X" :> "x") @@
    ("Y" :> "y") @@ ("Z" :> "z")

UpperOf ==
    ("a" :> "A") @@ ("b" :> "B") @@ ("c" :> "C") @@ ("d" :> "D") @@ ("e" :> "E") @@ ("f" :> "F") @@
    ("g" :> "G") @@ ("h" :> "H") @@ ("i" :> "I") @@ ("j" :> "J") @@ ("k" :> "K") @@ ("l" :> "L") @@
    ("m" :> "M") @@ ("n" :> "N") @@ ("o" :> "O") @@ ("p" :> "P") @@ ("q" :> "Q") @@ ("r" :> "R") @@
    ("s" :> "S") @@ ("t" :> "T") @@ ("u" :> "U") @@ ("v" :> "V") @@ ("w" :> "W") @@ ("x" :> "X") @@
    ("y" :> "Y") @@ ("z" :> "Z")

LowerChar(c) == IF c \in DOMAIN LowerOf THEN LowerOf[c] ELSE c

UpperChar(c) == IF c \in DOMAIN UpperOf THEN UpperOf[c] ELSE c

RECURSIVE lower(_)
lower(s) ==
    IF Len(s) = 0 THEN ""
    ELSE LowerChar(CharAt(s, 1)) \o lower(SubSeq(s, 2, Len(s)))

contains(s, sub) ==
    \E i \in 1..(Len(s) - Len(sub) + 1) : SubSeq(s, i, i + Len(sub) - 1) = sub

InList(x, xs) == \E i \in 1..Len(xs) : xs[i] = x

(***************************************************************************)
(* generate_hundred_meals: the deterministic catalog.                      *)
(***************************************************************************)
_title(s) ==
    IF Len(s) = 0 THEN s
    ELSE UpperChar(CharAt(s, 1)) \o SubSeq(s, 2, Len(s))

protein_bases ==
    << "eggs", "egg whites", "chicken breast", "chicken thigh", "turkey", "lean beef",
       "lean goat meat", "tilapia", "mackerel", "catfish", "sardine (water)", "salmon",
       "shrimp", "prawns", "tuna (water)", "tofu", "snail", "gizzard", "kidney (moderate)" >>

protein_methods ==
    << "grilled", "roasted", "baked", "boiled", "stewed", "smoked", "pan-seared" >>

veg_bases ==
    << "spinach (efo)", "ugu (pumpkin leaves)", "soko (celosia)", "bitterleaf",
       "okra", "cabbage", "lettuce", "kale", "cucumber", "tomatoes", "carrots",
       "bell pepper", "green beans", "broccoli", "cauliflower", "garden egg",
       "amaranth greens" >>

veg_methods == << "steamed", "sautéed", "stir-fried", "raw salad" >>

carb_bases ==
    << "brown rice", "ofada rice", "white rice", "yam", "sweet potato", "Irish potato",
       "plantain", "garri (eba)", "amala", "semovita (semo)", "fufu", "tuwo",
       "beans (boiled)", "spaghetti", "macaroni", "couscous", "millet", "oats",
       "wheat semolina", "pounded yam" >>

fat_bases ==
    << "avocado (half)", "avocado (quarter)", "olive oil (1 tbsp)", "olive oil (2 tsp)",
       "groundnuts (handful)", "cashews (handful)", "almonds (handful)", "walnuts (handful)",
       "peanut butter, no sugar (1 tbsp)", "groundnut oil (1 tsp)", "palm oil (controlled, 1 tsp)",
       "coconut oil (1 tsp)", "flaxseed (1 tbsp)", "chia seeds (1 tbsp)", "sesame seeds (1 tbsp)" >>

portions == << "small portion of", "moderate portion of" >>

PoolTarget == 100

_build_variations(bases, methods, extra_tags, target) ==
    IF Len(bases) = 0 THEN << >>
    ELSE [k \in 1..target |->
            LET i      == k - 1
                base   == bases[(i % Len(bases)) + 1]
                method == IF Len(methods) > 0 THEN methods[(i % Len(methods)) + 1] ELSE ""
                name   == IF method # "" THEN _title(method) \o " " \o base ELSE _title(base)
                tags   == << "nigerian" >> \o extra_tags \o
                          (IF InList("protein", extra_tags) \/ InList("veg", extra_tags)
                              \/ InList("healthy-fat", extra_tags)
                           THEN << "zero-carb-suitable" >> ELSE << >>)
            IN  [name |-> name, tags |-> tags]]

_build_carb_items_zero_carb(bases, target) ==
    IF Len(bases) = 0 THEN << >>
    ELSE [k \in 1..target |->
            [name |-> _title(portions[((k - 1) % Len(portions)) + 1]) \o " "
                        \o bases[((k - 1) % Len(bases)) + 1],
             tags |-> << "nigerian", "lunch-carb", "carb", "zero-carb-suitable" >>]]

_build_carb_items(bases, target) ==
    IF Len(bases) = 0 THEN << >>
    ELSE [k \in 1..target |->
            LET i       == k - 1
                base    == bases[(i % Len(bases)) + 1]
                portion == portions[(i % Len(portions)) + 1]
            IN  [name |-> _title(portion) \o " " \o base,
                 tags |-> << "nigerian", "lunch-carb", "carb" >>]]

_build_fat_items(bases, target) ==
    IF Len(bases) = 0 THEN << >>
    ELSE [k \in 1..target |->
            LET i    == k - 1
                base == bases[(i % Len(bases)) + 1]
            IN  [name |-> _title(base),
                 tags |-> << "nigerian", "healthy-fat", "zero-carb-suitable" >>]]

generate_hundred_meals ==
    LET proteins   == _build_variations(protein_bases, protein_methods, << "protein" >>, PoolTarget)
        vegetables == _build_variations(veg_bases, veg_methods, << "veg", "vegetables" >>, PoolTarget)
        carbs      == _build_carb_items(carb_bases, PoolTarget)
        fats       == _build_fat_items(fat_bases, PoolTarget)
        all_items  == proteins \o vegetables \o carbs \o fats
    IN  [idx \in 1..Len(all_items) |->
            [id |-> idx, name |-> all_items[idx].name, tags |-> all_items[idx].tags]]

(***************************************************************************)
(* Allergy helpers called by the plan generators of utils/ai.py            *)
(* (_allergy_keywords_from_answers, _filter_allergy_items,                 *)
(* _choose_first_safe).  Answers are a function from question label to the *)
(* raw text value.                                                         *)
(***************************************************************************)
Separators == { ",", "/", "|", "&", ";", " ", "\t", "\n" }

MinKeywordLen == 3

RECURSIVE Tokens(_, _, _)
Tokens(s, cur, acc) ==
    LET flushed == IF Len(cur) >= MinKeywordLen THEN acc \cup {cur} ELSE acc
    IN  IF Len(s) = 0 THEN flushed
        ELSE LET c    == CharAt(s, 1)
                 rest == SubSeq(s, 2, Len(s))
             IN  IF c \in Separators THEN Tokens(rest, "", flushed)
                 ELSE Tokens(rest, cur \o c, acc)

_allergy_keywords_from_answers(answers) ==
    UNION { Tokens(lower(answers[k]), "", {}) :
              k \in { l \in DOMAIN answers : contains(lower(l), "allerg") } }

NameHasKeyword(name, kws) == \E kw \in kws : contains(lower(name), kw)

_filter_allergy_items(items, kws) ==
    SelectSeq(items, LAMBDA it : ~NameHasKeyword(it.name, kws))

_choose_first_safe(options, kws, fallback) ==
    IF \E i \in 1..Len(options) : ~NameHasKeyword(options[i], kws)
    THEN options[CHOOSE i \in 1..Len(options) :
                    /\ ~NameHasKeyword(options[i], kws)
                    /\ \A j \in 1..(i - 1) : NameHasKeyword(options[j], kws)]
    ELSE fallback

(***************************************************************************)
(* generate_two_day_plan / generate_month_plan.                            *)
(***************************************************************************)
has(it, key) == \E i \in 1..Len(it.tags) : lower(it.tags[i]) = key

_split(items) ==
    [proteins |-> SelectSeq(items, LAMBDA it : has(it, "protein")),
     carbs    |-> SelectSeq(items, LAMBDA it : has(it, "lunch-carb") \/ has(it, "carb")),
     vegs     |-> SelectSeq(items, LAMBDA it : has(it, "veg") \/ has(it, "vegetables")),
     fats     |-> SelectSeq(items, LAMBDA it : has(it, "healthy-fat"))]

Snacks == << "Herbal tea (morning)", "Herbal tea (with lunch)", "Herbal tea (night)" >>

Safe(options, kws, fallback, tag) ==
    [name |-> _choose_first_safe(options, kws, fallback), tags |-> << tag >>]

TwoDayBackfill(sp, allergy_kws) ==
        [proteins |-> IF Len(sp.proteins) = 0
                      THEN << Safe(<< "Grilled chicken", "Roasted turkey", "Tofu (plant-based)" >>,
                                   allergy_kws, "Lean protein (grilled)", "protein") >>
                      ELSE sp.proteins,
         vegs     |-> IF Len(sp.vegs) = 0
                      THEN << Safe(<< "Steamed spinach (efo)", "Cabbage salad", "Sautéed kale" >>,
                                   allergy_kws, "Steamed leafy vegetables", "veg") >>
                      ELSE sp.vegs,
         fats     |-> IF Len(sp.fats) = 0
                      THEN << Safe(<< "Olive oil (1 tsp)", "Avocado (quarter)", "Flaxseed (1 tbsp)" >>,
                                   allergy_kws, "Olive oil (1 tsp)", "healthy-fat") >>
                      ELSE sp.fats,
         carbs    |-> IF Len(sp.carbs) = 0
                      THEN << Safe(<< "Small portion of brown rice", "Small portion of boiled yam",
                                      "Small portion of sweet potato" >>,
                                   allergy_kws, "Small portion of brown rice", "lunch-carb") >>
                      ELSE sp.carbs]

MonthBackfill(sp, allergy_kws) ==
        [proteins |-> IF Len(sp.proteins) = 0
                      THEN << Safe(<< "Grilled chicken", "Roasted turkey", "Tofu (plant-based)" >>,
                                   allergy_kws, "Lean protein (grilled)", "protein"),
                              Safe(<< "Boiled chicken", "Pan-seared tilapia", "Tofu (plant-based)" >>,
                                   allergy_kws, "Lean protein (boiled)", "protein") >>
                      ELSE sp.proteins,
         vegs     |-> IF Len(sp.vegs) = 0
                      THEN << Safe(<< "Steamed spinach (efo)", "Cabbage salad", "Sautéed kale" >>,
                                   allergy_kws, "Steamed leafy vegetables", "veg"),
                              Safe(<< "Okra stir-fry", "Lettuce salad", "Broccoli (steamed)" >>,
                                   allergy_kws, "Mixed vegetables (steamed)", "veg") >>
                      ELSE sp.vegs,
         fats     |-> IF Len(sp.fats) = 0
                      THEN << Safe(<< "Olive oil (1 tsp)", "Avocado (quarter)", "Flaxseed (1 tbsp)" >>,
                                   allergy_kws, "Olive oil (1 tsp)", "healthy-fat"),
                              Safe(<< "Groundnuts (handful)", "Walnuts (handful)", "Chia seeds (1 tbsp)" >>,
                                   allergy_kws, "Olive oil (1 tsp)", "healthy-fat") >>
                      ELSE sp.fats,
         carbs    |-> IF Len(sp.carbs) = 0
                      THEN << Safe(<< "Small portion of brown rice", "Small portion of boiled yam",
                                      "Small portion of sweet potato" >>,
                                   allergy_kws, "Small portion of brown rice", "lunch-carb"),
                              Safe(<< "Small portion of ofada rice", "Small portion of plantain",
                                      "Small portion of couscous" >>,
                                   allergy_kws, "Small portion of boiled yam", "lunch-carb") >>
                      ELSE sp.carbs]

Filtered(selected_meals, allergy_kws) ==
    _split(_filter_allergy_items(selected_meals, allergy_kws))

TwoDayPools(selected_meals, allergy_kws) ==
    TwoDayBackfill(Filtered(selected_meals, allergy_kws), allergy_kws)

MonthPools(selected_meals, allergy_kws) ==
    MonthBackfill(Filtered(selected_meals, allergy_kws), allergy_kws)

Pick(pool, i) == pool[(i % Len(pool)) + 1].name

zero_carb_text_with_carb(pools, i) ==
    Pick(pools.proteins, i) \o " with " \o lower(Pick(pools.carbs, i * 2))
        \o " (" \o Pick(pools.fats, i * 3) \o ")"

zero_carb_text(pools, i) ==
    Pick(pools.proteins, i) \o " with " \o lower(Pick(pools.vegs, i * 2))
        \o " (" \o Pick(pools.fats, i * 3) \o ")"

two_day_lunch_text(pools, i) ==
    Pick(pools.carbs, i) \o " with " \o lower(Pick(pools.proteins, i + 1))
        \o " and " \o lower(Pick(pools.vegs, i + 2))

TwoDayFrom(pools) ==
        [days |-> <<
            [day |-> 1, breakfast |-> zero_carb_text(pools, 0),
             lunch |-> two_day_lunch_text(pools, 0), dinner |-> zero_carb_text(pools, 1),
             snacks |-> Snacks],
            [day |-> 2, breakfast |-> zero_carb_text(pools, 2),
             lunch |-> two_day_lunch_text(pools, 1), dinner |-> zero_carb_text(pools, 3),
             snacks |-> Snacks] >>]

generate_two_day_plan(category, selected_meals, answers, assessment) ==
    TwoDayFrom(TwoDayPools(selected_meals, _allergy_keywords_from_answers(answers)))

MonthDays == 30

DinnerOffset == 13

MaxShift == 10

AssessmentLevel(assessment) ==
    IF "level" \in DOMAIN assessment THEN assessment.level ELSE 1

portion_prefix(lvl) == IF lvl >= 2 THEN "small portion of" ELSE "moderate portion of"

\* fault: the portion prefix put before every carbohydrate name
month_lunch_text_always_prefixed(pools, prefix, i) ==
    prefix \o " " \o Pick(pools.carbs, i) \o " with " \o lower(Pick(pools.proteins, i + 1))
        \o " and " \o lower(Pick(pools.vegs, i + 2))

month_lunch_text(pools, prefix, i) ==
    LET c0 == Pick(pools.carbs, i)
        c  == IF ~contains(lower(c0), "portion of") THEN prefix \o " " \o c0 ELSE c0
    IN  c \o " with " \o lower(Pick(pools.proteins, i + 1))
          \o " and " \o lower(Pick(pools.vegs, i + 2))

Triplet(pools, prefix, i) ==
    << zero_carb_text(pools, i), month_lunch_text(pools, prefix, i),
       zero_carb_text(pools, i + DinnerOffset) >>

RECURSIVE ShiftUntilNew(_, _, _, _, _)
ShiftUntilNew(pools, prefix, i, shift, seen) ==
    IF Triplet(pools, prefix, i + shift) \in seen /\ shift < MaxShift
    THEN ShiftUntilNew(pools, prefix, i, shift + 1, seen)
    ELSE shift

\* fault: the day numbered by the loop index i instead of i + 1
DayEntry_loop_index(day, t) ==
    [day |-> day - 1, breakfast |-> t[1], lunch |-> t[2], dinner |-> t[3], snacks |-> Snacks]

DayEntry(day, t) ==
    [day |-> day, breakfast |-> t[1], lunch |-> t[2], dinner |-> t[3], snacks |-> Snacks]

RECURSIVE MonthLoop(_, _, _, _, _)
MonthLoop(pools, prefix, i, seen, days) ==
    IF i >= MonthDays THEN days
    ELSE MonthLoop(pools, prefix, i + 1,
                   seen \cup {Triplet(pools, prefix, i + ShiftUntilNew(pools, prefix, i, 0, seen))},
                   Append(days, DayEntry(i + 1,
                       Triplet(pools, prefix, i + ShiftUntilNew(pools, prefix, i, 0, seen)))))

generate_month_plan(category, selected_meals, answers, assessment) ==
    [days |-> MonthLoop(MonthPools(selected_meals, _allergy_keywords_from_answers(answers)),
                        portion_prefix(AssessmentLevel(assessment)), 0, {}, << >>)]

(***************************************************************************)
(* Tables (survey/models.py).  A nullable column holds << >> for NULL and  *)
(* << v >> for a value; selected_meal_ids holds << >> for NULL (the views  *)
(* read it as `plan.selected_meal_ids or []`).  hundred_meals is written   *)
(* once by SubmitAnswers with generate_hundred_meals and never again, so   *)
(* it is read through the definition hundred_meals below.  Columns no view *)
(* branches on (amount, currency, provider, raw_metadata, timestamps) are  *)
(* left out.                                                               *)
(***************************************************************************)
VARIABLES
    submissions,    \* SurveySubmission rows in creation order
    meal_plans,     \* MealPlan rows; the row's id is its index
    payments,       \* Payment rows by meal_plan id (OneToOneField), << >> if none
    ever_paid,      \* ids of the meal plans whose Payment has had status PAID
    inflight,       \* the SelectMeals request each concurrent worker is serving
    call,           \* the call of a pure function under study, NoCall if none
    result          \* what that call returned, Null before it returns

vars == << submissions, meal_plans, payments, ever_paid, inflight, call, result >>

MaxPlans == 2

PENDING == "pending"

PAID == "paid"

Null == << >>

NoCall == [fn |-> "none"]

Some(v) == << v >>

IsNull(col) == Len(col) = 0

hundred_meals == generate_hundred_meals

(***************************************************************************)
(* Request inputs.  An answer set carries the fields the plan generators   *)
(* read; `complete` says whether validate_answers finds no missing label;  *)
(* `level` is the level assess_level returns for it.                       *)
(***************************************************************************)
AllergyLabel == "Allergies (food or drug):"

NoAllergy == [l \in {AllergyLabel} |-> "None"]

EggFish == [l \in {AllergyLabel} |-> "Egg, fish"]

AnswerChoices == { NoAllergy, EggFish }

SelChoices == { << 1, 101, 201, 301 >>, << 2, 8, 120 >> }

Refs == { "ref-1" }

PlanIds == 1..MaxPlans

\* submissions of one guest: two for one category with different answers and
\* one for another category; and a submission with a required answer missing
SubmitRequests ==
    { [email |-> "ada@example.com", category |-> "diabetes", answers |-> NoAllergy,
       complete |-> TRUE, level |-> 1],
      [email |-> "ada@example.com", category |-> "diabetes", answers |-> EggFish,
       complete |-> TRUE, level |-> 2],
      [email |-> "ada@example.com", category |-> "hbp", answers |-> NoAllergy,
       complete |-> TRUE, level |-> 1],
      [email |-> "bob@example.com", category |-> "hbp", answers |-> NoAllergy,
       complete |-> FALSE, level |-> 1] }

\* a guest with another email
OtherGuest ==
    [email |-> "bob@example.com", category |-> "hbp", answers |-> NoAllergy,
     complete |-> TRUE, level |-> 1]

\* the selections posted: one for any plan, and a different one for plan 1
SelectInputs ==
    [id : PlanIds, selected_ids : { << 1, 101, 201, 301 >> }]
        \cup { [id |-> 1, selected_ids |-> << 2, 8, 120 >>] }

\* the gateway's answers to initialize_transaction; one failing answer
InitInputs ==
    [id : PlanIds, ok : {TRUE}, reference : Refs]
        \cup { [id |-> 1, ok |-> FALSE, reference |-> "ref-1"] }

\* the webhook deliveries; one delivery with a wrong signature
WebhookEvents ==
    [signed : {TRUE}, charged : BOOLEAN, reference : Refs, meta_id : 0..MaxPlans]
        \cup { [signed |-> FALSE, charged |-> TRUE, reference |-> "ref-1", meta_id |-> 0] }

LevelLabel(l) == IF l = 1 THEN "mild" ELSE IF l = 2 THEN "moderate" ELSE "severe"

Assessment(category, l) == [condition |-> category, level |-> l, label |-> LevelLabel(l)]

(***************************************************************************)
(* Rows selected by the views' queries.                                    *)
(***************************************************************************)
Exists(plans, id) == id \in 1..Len(plans)

\* index = {item["id"]: item ...}; [index[mid] for mid in ids if mid in index]
SelectedMeals(ids) ==
    LET valid == SelectSeq(ids, LAMBDA mid : mid \in 1..Len(hundred_meals))
    IN  [k \in 1..Len(valid) |-> hundred_meals[valid[k]]] \o << >>

\* the paid-plan views fall back to the first ten catalog items
SelectedOrFirstTen(ids) ==
    IF Len(SelectedMeals(ids)) = 0 THEN SubSeq(hundred_meals, 1, 10) ELSE SelectedMeals(ids)

\* profile.submissions.filter(category=...).order_by("-created_at").first()
LatestAnswers(subs, plan) ==
    LET mine == { i \in 1..Len(subs) :
                    subs[i].profile = plan.profile /\ subs[i].category = plan.category }
    IN  IF mine = {} THEN << >>
        ELSE subs[CHOOSE i \in mine : \A j \in mine : j <= i].answers

\* fault: the cross-plan query narrowed to the plan's own category
cross_free_exists_same_category(plans, id) ==
    \E o \in 1..Len(plans) :
        /\ o # id
        /\ plans[o].email = plans[id].email
        /\ plans[o].category = plans[id].category
        /\ ~IsNull(plans[o].free_plan)
        /\ IsNull(plans[o].paid_plan)

\* MealPlan.objects.filter(email=..., free_plan__isnull=False,
\*                         paid_plan__isnull=True).exclude(id=...).exists()
cross_free_exists(plans, id) ==
    \E o \in 1..Len(plans) :
        /\ o # id
        /\ plans[o].email = plans[id].email
        /\ ~IsNull(plans[o].free_plan)
        /\ IsNull(plans[o].paid_plan)

\* Payment.objects.filter(reference=reference)
PaymentsByReference(pays, reference) ==
    { b \in 1..Len(pays) : ~IsNull(pays[b]) /\ pays[b][1].reference = reference }

\* Payment.reference is unique: saving `reference` on the payment of plan id
\* raises IntegrityError when another payment holds it
ReferenceTaken(pays, id, reference) ==
    \E b \in PaymentsByReference(pays, reference) : b # id

NowPaid(pays) == { b \in 1..Len(pays) : ~IsNull(pays[b]) /\ pays[b][1].status = PAID }

\* MealPlanSerializer(plan).data
MealPlanData(plans, id) == Some([id |-> id] @@ plans[id])

(***************************************************************************)
(* The generators' results for the workflow's inputs, computed once.       *)
(***************************************************************************)
PlanKeys ==
    { << ca[1], m, a, Assessment(ca[1], ca[2]) >> :
        ca \in { << "diabetes", 1 >>, << "diabetes", 2 >>, << "hbp", 1 >> },
        m \in { SelectedMeals(sel) : sel \in SelChoices } \cup { SelectedOrFirstTen(Null) },
        a \in AnswerChoices }

two_day_plans ==
    [k \in PlanKeys |-> generate_two_day_plan(k[1], k[2], k[3], k[4])] @@ << >>

month_plans ==
    [k \in PlanKeys |-> generate_month_plan(k[1], k[2], k[3], k[4])] @@ << >>

two_day_plan(category, selected_meals, answers, assessment) ==
    two_day_plans[<< category, selected_meals, answers, assessment >>]

month_plan(category, selected_meals, answers, assessment) ==
    month_plans[<< category, selected_meals, answers, assessment >>]

(***************************************************************************)
(* SubmitAnswersView.post: the response status and the rows it leaves.     *)
(***************************************************************************)
SubmitAnswersResult(subs, plans, pays, req) ==
    IF ~req.complete
    THEN [status |-> 400, data |-> Null, submissions |-> subs, meal_plans |-> plans,
          payments |-> pays]
    ELSE LET plan == [profile |-> << "guest", req.email >>, email |-> req.email,
                      category |-> req.category,
                      assessment |-> Assessment(req.category, req.level),
                      selected_meal_ids |-> Null, free_plan |-> Null, paid_plan |-> Null]
         IN  [status |-> 201, data |-> MealPlanData(Append(plans, plan), Len(plans) + 1),
              submissions |-> Append(subs, [profile |-> << "guest", req.email >>,
                                            category |-> req.category,
                                            answers |-> req.answers]),
              meal_plans |-> Append(plans, plan),
              payments |-> Append(pays, Null)]

SubmitAnswers(req) ==
    /\ req.complete => Len(meal_plans) < MaxPlans
    /\ submissions' = SubmitAnswersResult(submissions, meal_plans, payments, req).submissions
    /\ meal_plans' = SubmitAnswersResult(submissions, meal_plans, payments, req).meal_plans
    /\ payments' = SubmitAnswersResult(submissions, meal_plans, payments, req).payments
    /\ UNCHANGED << ever_paid, inflight, call, result >>

(***************************************************************************)
(* SelectMealsView.post                                                    *)
(***************************************************************************)
\* fault: the view without its `if plan.paid_plan` early return
SelectMealsResultNoPaidCheck(subs, plans, id, selected_ids) ==
    IF ~Exists(plans, id)
    THEN [status |-> 400, data |-> Null, meal_plans |-> plans]
    ELSE IF ~IsNull(plans[id].free_plan)
    THEN [status |-> 403, data |-> Null, meal_plans |-> plans]
    ELSE IF cross_free_exists(plans, id)
    THEN [status |-> 403, data |-> Null, meal_plans |-> plans]
    ELSE LET saved == [plans EXCEPT
                          ![id].selected_meal_ids = selected_ids,
                          ![id].free_plan = Some(two_day_plan(plans[id].category,
                              SelectedMeals(selected_ids), LatestAnswers(subs, plans[id]),
                              plans[id].assessment))]
         IN  [status |-> 200, data |-> MealPlanData(saved, id), meal_plans |-> saved]

\* fault: the view without its `if plan.free_plan` refusal
SelectMealsResultNoPreviewCheck(subs, plans, id, selected_ids) ==
    IF ~Exists(plans, id)
    THEN [status |-> 400, data |-> Null, meal_plans |-> plans]
    ELSE IF ~IsNull(plans[id].paid_plan)
    THEN [status |-> 200, data |-> MealPlanData(plans, id), meal_plans |-> plans]
    ELSE IF cross_free_exists(plans, id)
    THEN [status |-> 403, data |-> Null, meal_plans |-> plans]
    ELSE LET saved == [plans EXCEPT
                          ![id].selected_meal_ids = selected_ids,
                          ![id].free_plan = Some(two_day_plan(plans[id].category,
                              SelectedMeals(selected_ids), LatestAnswers(subs, plans[id]),
                              plans[id].assessment))]
         IN  [status |-> 200, data |-> MealPlanData(saved, id), meal_plans |-> saved]

SelectMealsResult(subs, plans, id, selected_ids) ==
    IF ~Exists(plans, id)
    THEN [status |-> 400, data |-> Null, meal_plans |-> plans]
    ELSE IF ~IsNull(plans[id].paid_plan)
    THEN [status |-> 200, data |-> MealPlanData(plans, id), meal_plans |-> plans]
    ELSE IF ~IsNull(plans[id].free_plan)
    THEN [status |-> 403, data |-> Null, meal_plans |-> plans]
    ELSE IF cross_free_exists(plans, id)
    THEN [status |-> 403, data |-> Null, meal_plans |-> plans]
    ELSE LET saved == [plans EXCEPT
                          ![id].selected_meal_ids = selected_ids,
                          ![id].free_plan = Some(two_day_plan(plans[id].category,
                              SelectedMeals(selected_ids), LatestAnswers(subs, plans[id]),
                              plans[id].assessment))]
         IN  [status |-> 200, data |-> MealPlanData(saved, id), meal_plans |-> saved]

SelectMeals(id, selected_ids) ==
    /\ meal_plans' = SelectMealsResult(submissions, meal_plans, id, selected_ids).meal_plans
    /\ UNCHANGED << submissions, payments, ever_paid, inflight, call, result >>

(***************************************************************************)
(* UpgradeToMonthView.post                                                 *)
(***************************************************************************)
UpgradeToMonthResult(subs, plans, pays, id, reference) ==
    IF ~Exists(plans, id)
    THEN [status |-> 400, data |-> Null, meal_plans |-> plans, payments |-> pays]
    ELSE IF ReferenceTaken(pays, id, reference)
    THEN [status |-> 500, data |-> Null, meal_plans |-> plans, payments |-> pays]
    ELSE LET saved == [plans EXCEPT
                          ![id].paid_plan = Some(month_plan(plans[id].category,
                              SelectedOrFirstTen(plans[id].selected_meal_ids),
                              LatestAnswers(subs, plans[id]), plans[id].assessment))]
         IN  [status |-> 200, data |-> MealPlanData(saved, id), meal_plans |-> saved,
              payments |-> [pays EXCEPT ![id] =
                                Some([reference |-> reference, status |-> PAID])]]

UpgradeToMonth(id, reference) ==
    /\ meal_plans' = UpgradeToMonthResult(submissions, meal_plans, payments, id, reference).meal_plans
    /\ payments' = UpgradeToMonthResult(submissions, meal_plans, payments, id, reference).payments
    /\ ever_paid' = ever_paid \cup NowPaid(payments')
    /\ UNCHANGED << submissions, inflight, call, result >>

(***************************************************************************)
(* MealPlanRetrieveView.get.  The lookup by (email, category) resolves to  *)
(* one of the existing rows, so it is covered by the lookup by id.         *)
(***************************************************************************)
MealPlanRetrieveResult(subs, plans, id) ==
    IF ~Exists(plans, id)
    THEN [status |-> 404, data |-> Null, meal_plans |-> plans]
    ELSE IF IsNull(plans[id].paid_plan)
    THEN LET saved == [plans EXCEPT
                          ![id].paid_plan = Some(month_plan(plans[id].category,
                              SelectedOrFirstTen(plans[id].selected_meal_ids),
                              LatestAnswers(subs, plans[id]), plans[id].assessment))]
         IN  [status |-> 200, data |-> MealPlanData(saved, id), meal_plans |-> saved]
    ELSE [status |-> 200, data |-> MealPlanData(plans, id), meal_plans |-> plans]

MealPlanRetrieve(id) ==
    /\ meal_plans' = MealPlanRetrieveResult(submissions, meal_plans, id).meal_plans
    /\ UNCHANGED << submissions, payments, ever_paid, inflight, call, result >>

(***************************************************************************)
(* PaystackInitView.post: `ok` and `reference` are the gateway's answer.   *)
(***************************************************************************)
PaystackInitResult(plans, pays, id, ok, reference) ==
    IF ~Exists(plans, id) \/ ~ok
    THEN [status |-> 400, payments |-> pays]
    ELSE IF ReferenceTaken(pays, id, reference)
    THEN [status |-> 500, payments |-> pays]
    ELSE [status |-> 200,
          payments |-> [pays EXCEPT ![id] =
                            Some([reference |-> reference, status |-> PENDING])]]

PaystackInit(id, ok, reference) ==
    /\ payments' = PaystackInitResult(meal_plans, payments, id, ok, reference).payments
    /\ UNCHANGED << submissions, meal_plans, ever_paid, inflight, call, result >>

(***************************************************************************)
(* PaystackVerifyView.post: `verified` is the gateway's answer.            *)
(***************************************************************************)
PaystackVerifyResult(pays, reference, verified) ==
    IF ~verified
    THEN [status |-> 400, payments |-> pays]
    ELSE [status |-> 200,
          payments |-> [b \in 1..Len(pays) |->
                           IF b \in PaymentsByReference(pays, reference)
                           THEN Some([pays[b][1] EXCEPT !.status = PAID])
                           ELSE pays[b]]]

PaystackVerify(reference, verified) ==
    /\ payments' = PaystackVerifyResult(payments, reference, verified).payments
    /\ ever_paid' = ever_paid \cup NowPaid(payments')
    /\ UNCHANGED << submissions, meal_plans, inflight, call, result >>

(***************************************************************************)
(* PaystackWebhookView.post: `signed` says whether the signature matches,  *)
(* `charged` whether the event is charge.success with status success,      *)
(* `meta_id` is metadata.meal_plan_id (0 when absent).                     *)
(***************************************************************************)
\* fault: charge.success generates the plan but the status PAID is not saved
PaystackWebhookResultStatusUnsaved(subs, plans, pays, signed, charged, reference, meta_id) ==
    LET found   == PaymentsByReference(pays, reference)
        target  == IF found # {} THEN CHOOSE b \in found : TRUE ELSE meta_id
        created == IF found # {} THEN pays
                   ELSE [pays EXCEPT ![meta_id] =
                            Some([reference |-> reference, status |-> PENDING])]
    IN  IF ~signed
        THEN [status |-> 400, meal_plans |-> plans, payments |-> pays]
        ELSE IF found = {} /\ (~Exists(plans, meta_id) \/ ~IsNull(pays[meta_id]))
        THEN [status |-> 500, meal_plans |-> plans, payments |-> pays]
        ELSE IF created[target][1].status = PAID
        THEN [status |-> 200, meal_plans |-> plans, payments |-> created]
        ELSE IF charged
        THEN [status |-> 200,
              payments |-> created,
              meal_plans |->
                  IF IsNull(plans[target].paid_plan)
                  THEN [plans EXCEPT
                          ![target].paid_plan = Some(two_day_plan(plans[target].category,
                              SelectedOrFirstTen(plans[target].selected_meal_ids),
                              LatestAnswers(subs, plans[target]), plans[target].assessment))]
                  ELSE plans]
        ELSE [status |-> 200, meal_plans |-> plans, payments |-> created]

PaystackWebhookResult(subs, plans, pays, signed, charged, reference, meta_id) ==
    LET found   == PaymentsByReference(pays, reference)
        \* the payment the view works on: the one found, or the one it creates
        target  == IF found # {} THEN CHOOSE b \in found : TRUE ELSE meta_id
        created == IF found # {} THEN pays
                   ELSE [pays EXCEPT ![meta_id] =
                            Some([reference |-> reference, status |-> PENDING])]
    IN  IF ~signed
        THEN [status |-> 400, meal_plans |-> plans, payments |-> pays]
        ELSE IF found = {} /\ (~Exists(plans, meta_id) \/ ~IsNull(pays[meta_id]))
        THEN \* Payment.meal_plan is a non-null OneToOneField: IntegrityError
             [status |-> 500, meal_plans |-> plans, payments |-> pays]
        ELSE IF created[target][1].status = PAID
        THEN [status |-> 200, meal_plans |-> plans, payments |-> created]
        ELSE IF charged
        THEN [status |-> 200,
              payments |-> [created EXCEPT ![target] =
                               Some([created[target][1] EXCEPT !.status = PAID])],
              meal_plans |->
                  IF IsNull(plans[target].paid_plan)
                  THEN [plans EXCEPT
                          ![target].paid_plan = Some(two_day_plan(plans[target].category,
                              SelectedOrFirstTen(plans[target].selected_meal_ids),
                              LatestAnswers(subs, plans[target]), plans[target].assessment))]
                  ELSE plans]
        ELSE [status |-> 200, meal_plans |-> plans, payments |-> created]

PaystackWebhook(signed, charged, reference, meta_id) ==
    /\ meal_plans' = PaystackWebhookResult(submissions, meal_plans, payments,
                                           signed, charged, reference, meta_id).meal_plans
    /\ payments' = PaystackWebhookResult(submissions, meal_plans, payments,
                                         signed, charged, reference, meta_id).payments
    /\ ever_paid' = ever_paid \cup NowPaid(payments')
    /\ UNCHANGED << submissions, inflight, call, result >>

(***************************************************************************)
(* SelectMealsView.post served by two workers at once.  The view takes no  *)
(* lock and opens no transaction, so each of its queries is a step of its  *)
(* own: the row it loads, the cross-plan query, the submission it reads    *)
(* for the generator, and the UPDATE of the two columns.                   *)
(***************************************************************************)
Workers == { "w1", "w2" }

Idle == [pc |-> "idle"]

\* plan = MealPlan.objects.get(id=meal_plan_id)
SelectMealsLoad(w, id, selected_ids) ==
    /\ inflight[w].pc = "idle"
    /\ Exists(meal_plans, id)
    /\ inflight' = [inflight EXCEPT ![w] =
                       [pc |-> "loaded", id |-> id, selected_ids |-> selected_ids,
                        plan |-> meal_plans[id]]]
    /\ UNCHANGED << submissions, meal_plans, payments, ever_paid, call, result >>

\* the checks on the loaded row, then the cross-plan query
SelectMealsCheck(w) ==
    /\ inflight[w].pc = "loaded"
    /\ inflight' = [inflight EXCEPT ![w] =
          IF ~IsNull(inflight[w].plan.paid_plan)
          THEN [pc |-> "done", id |-> inflight[w].id, status |-> 200, wrote |-> FALSE]
          ELSE IF ~IsNull(inflight[w].plan.free_plan)
          THEN [pc |-> "done", id |-> inflight[w].id, status |-> 403, wrote |-> FALSE]
          ELSE IF cross_free_exists(meal_plans, inflight[w].id)
          THEN [pc |-> "done", id |-> inflight[w].id, status |-> 403, wrote |-> FALSE]
          ELSE [inflight[w] EXCEPT !.pc = "checked"]]
    /\ UNCHANGED << submissions, meal_plans, payments, ever_paid, call, result >>

\* the latest submission is read and the two-day plan generated
SelectMealsGenerate(w) ==
    /\ inflight[w].pc = "checked"
    /\ inflight' = [inflight EXCEPT ![w] =
          [pc |-> "generated", id |-> inflight[w].id,
           selected_ids |-> inflight[w].selected_ids,
           free_plan |-> two_day_plan(inflight[w].plan.category,
                             SelectedMeals(inflight[w].selected_ids),
                             LatestAnswers(submissions, inflight[w].plan),
                             inflight[w].plan.assessment)]]
    /\ UNCHANGED << submissions, meal_plans, payments, ever_paid, call, result >>

\* plan.save(update_fields=["selected_meal_ids", "free_plan", ...])
SelectMealsSave(w) ==
    /\ inflight[w].pc = "generated"
    /\ meal_plans' = [meal_plans EXCEPT
                         ![inflight[w].id].selected_meal_ids = inflight[w].selected_ids,
                         ![inflight[w].id].free_plan = Some(inflight[w].free_plan)]
    /\ inflight' = [inflight EXCEPT ![w] =
                       [pc |-> "done", id |-> inflight[w].id, status |-> 200,
                        wrote |-> TRUE]]
    /\ UNCHANGED << submissions, payments, ever_paid, call, result >>

Init ==
    /\ submissions = << >>
    /\ meal_plans = << >>
    /\ payments = << >>
    /\ ever_paid = {}
    /\ inflight = [w \in Workers |-> Idle]
    /\ call = NoCall
    /\ result = Null

Next ==
    \/ \E req \in SubmitRequests : SubmitAnswers(req)
    \/ \E g \in SelectInputs : SelectMeals(g.id, g.selected_ids)
    \/ \E id \in PlanIds, reference \in Refs : UpgradeToMonth(id, reference)
    \/ \E id \in PlanIds : MealPlanRetrieve(id)
    \/ \E g \in InitInputs : PaystackInit(g.id, g.ok, g.reference)
    \/ \E reference \in Refs, verified \in BOOLEAN : PaystackVerify(reference, verified)
    \/ \E e \in WebhookEvents :
            PaystackWebhook(e.signed, e.charged, e.reference, e.meta_id)

Spec == Init /\ [][Next]_vars

(***************************************************************************)
(* Two overlapping SelectMeals requests on the rows two submissions left.  *)
(***************************************************************************)
TwoSubmissions(first, second) ==
    LET one == SubmitAnswersResult(<< >>, << >>, << >>, first)
    IN  SubmitAnswersResult(one.submissions, one.meal_plans, one.payments, second)

\* the rows may belong to one guest or to two
InitConcurrent ==
    \E first, second \in { req \in SubmitRequests : req.complete } \cup { OtherGuest } :
        /\ submissions = TwoSubmissions(first, second).submissions
        /\ meal_plans = TwoSubmissions(first, second).meal_plans
        /\ payments = TwoSubmissions(first, second).payments
        /\ ever_paid = {}
        /\ inflight = [w \in Workers |-> Idle]
        /\ call = NoCall
        /\ result = Null

NextConcurrent ==
    \E w \in Workers :
        \/ \E id \in PlanIds, sel \in SelChoices : SelectMealsLoad(w, id, sel)
        \/ SelectMealsCheck(w)
        \/ SelectMealsGenerate(w)
        \/ SelectMealsSave(w)

SpecConcurrent == InitConcurrent /\ [][NextConcurrent]_vars

(***************************************************************************)
(* Properties of the request workflow.                                     *)
(***************************************************************************)

\* C1: in every reachable state, a plan bundle whose paid_plan is present has
\* a Payment row with status PAID.
PaidPlanHasPaidPayment ==
    \A b \in 1..Len(meal_plans) :
        ~IsNull(meal_plans[b].paid_plan) => b \in NowPaid(payments)

\* C2: with non-overlapping requests, no email has two bundles that both hold
\* a free_plan while their paid_plan is absent, whatever their categories.
AtMostOneUngatedPreviewPerEmail ==
    \A b, o \in 1..Len(meal_plans) :
        (/\ b # o
         /\ meal_plans[b].email = meal_plans[o].email
         /\ ~IsNull(meal_plans[b].free_plan)
         /\ IsNull(meal_plans[b].paid_plan)
         /\ ~IsNull(meal_plans[o].free_plan))
            => ~IsNull(meal_plans[o].paid_plan)

\* an email with previews on bundles of two categories, the earlier one paid
SecondPreviewAfterUnlock ==
    \E b, o \in 1..Len(meal_plans) :
        /\ b < o
        /\ meal_plans[b].email = meal_plans[o].email
        /\ meal_plans[b].category # meal_plans[o].category
        /\ ~IsNull(meal_plans[b].free_plan)
        /\ ~IsNull(meal_plans[b].paid_plan)
        /\ ~IsNull(meal_plans[o].free_plan)
        /\ IsNull(meal_plans[o].paid_plan)

\* C3: a step that gives a bundle its free_plan while another bundle of the
\* same email already holds one happens only after a Payment of that earlier
\* bundle has had status PAID.
SecondPreviewOnlyAfterPayment ==
    [][\A b, o \in 1..Len(meal_plans) :
          (/\ b # o
           /\ meal_plans[b].email = meal_plans[o].email
           /\ IsNull(meal_plans[b].free_plan)
           /\ ~IsNull(meal_plans'[b].free_plan)
           /\ ~IsNull(meal_plans[o].free_plan))
              => o \in ever_paid]_vars

PaidPlanWrittenOnce ==
    [][\A b \in 1..Len(meal_plans) :
          ~IsNull(meal_plans[b].paid_plan)
              => meal_plans'[b].paid_plan = meal_plans[b].paid_plan]_vars

\* C6: in every reachable state a paid_plan that is present has exactly 30
\* day entries and a free_plan that is present has exactly 2.
PlanDayCounts ==
    \A b \in 1..Len(meal_plans) :
        /\ ~IsNull(meal_plans[b].paid_plan)
              => Len(meal_plans[b].paid_plan[1].days) = MonthDays
        /\ ~IsNull(meal_plans[b].free_plan)
              => Len(meal_plans[b].free_plan[1].days) = 2

\* C7 as stated: a validly signed charge.success event whose reference is that
\* of a Payment row leaves that Payment PAID and its bundle with a paid_plan,
\* whatever came before.
WebhookSuccessUnlocks ==
    \A reference \in Refs, meta_id \in 0..MaxPlans :
        \A b \in PaymentsByReference(payments, reference) :
            /\ PaystackWebhookResult(submissions, meal_plans, payments,
                    TRUE, TRUE, reference, meta_id).payments[b][1].status = PAID
            /\ ~IsNull(PaystackWebhookResult(submissions, meal_plans, payments,
                    TRUE, TRUE, reference, meta_id).meal_plans[b].paid_plan)

\* C7 amended: such an event leaves the Payment PAID, and leaves the bundle
\* with a paid_plan when the Payment was not yet PAID as the event arrived
\* (for a Payment that is already PAID the webhook does nothing).
WebhookSuccessUnlocksUnlessProcessed ==
    \A reference \in Refs, meta_id \in 0..MaxPlans :
        \A b \in PaymentsByReference(payments, reference) :
            /\ PaystackWebhookResult(submissions, meal_plans, payments,
                    TRUE, TRUE, reference, meta_id).payments[b][1].status = PAID
            /\ payments[b][1].status # PAID
                  => ~IsNull(PaystackWebhookResult(submissions, meal_plans, payments,
                         TRUE, TRUE, reference, meta_id).meal_plans[b].paid_plan)

\* a pending Payment on a bundle without a paid_plan, which the event turns
\* into a PAID Payment on a bundle with one
WebhookUnlocksPendingPayment ==
    \E reference \in Refs :
        \E b \in PaymentsByReference(payments, reference) :
            /\ payments[b][1].status = PENDING
            /\ IsNull(meal_plans[b].paid_plan)
            /\ PaystackWebhookResult(submissions, meal_plans, payments,
                    TRUE, TRUE, reference, 0).payments[b][1].status = PAID
            /\ ~IsNull(PaystackWebhookResult(submissions, meal_plans, payments,
                    TRUE, TRUE, reference, 0).meal_plans[b].paid_plan)

\* C8: MealPlanRetrieve answers 404 or 402 for a bundle without a paid_plan,
\* and never changes the bundle's paid_plan, free_plan or selected_meal_ids.
RetrieveIsARead ==
    \A id \in 1..Len(meal_plans) :
        /\ IsNull(meal_plans[id].paid_plan)
              => MealPlanRetrieveResult(submissions, meal_plans, id).status \in {404, 402}
        /\ MealPlanRetrieveResult(submissions, meal_plans, id).meal_plans[id].paid_plan
                = meal_plans[id].paid_plan
        /\ MealPlanRetrieveResult(submissions, meal_plans, id).meal_plans[id].free_plan
                = meal_plans[id].free_plan
        /\ MealPlanRetrieveResult(submissions, meal_plans, id).meal_plans[id].selected_meal_ids
                = meal_plans[id].selected_meal_ids

\* C9: of two overlapping SelectMeals requests on one bundle at most one
\* writes free_plan and selected_meal_ids, and the other is refused.
OverlappingSelectsWriteOnce ==
    \A v, w \in Workers :
        (/\ v # w
         /\ inflight[v].pc = "done"
         /\ inflight[w].pc = "done"
         /\ inflight[v].id = inflight[w].id
         /\ inflight[v].wrote)
            => (~inflight[w].wrote /\ inflight[w].status = 403)

\* C10: two overlapping SelectMeals requests on two fresh bundles of one email
\* leave at most one of the two with a free_plan.
OverlappingSelectsOnePreviewPerEmail ==
    \A b, o \in 1..Len(meal_plans) :
        (b # o /\ meal_plans[b].email = meal_plans[o].email)
            => (IsNull(meal_plans[b].free_plan) \/ IsNull(meal_plans[o].free_plan))

(***************************************************************************)
(* questions.py: the question catalogs and the validation of an answer     *)
(* set.  An answer value is one JSON value of the request body, kept as    *)
(* [kind, v]: kind is "str", "num", "bool", "list" or "none" and v is the  *)
(* string itself, the decimal text of the number, "True"/"False", the text *)
(* of the list ("[]" when empty) or "".  answers is a function from the    *)
(* labels the request carries to such values.  A question's options are    *)
(* left out: no function modelled here reads them.                         *)
(***************************************************************************)
DIABETES_QUESTIONS ==
    << [id |-> 1, question |-> "Full Name:",
        type |-> "text", required_when |-> Null],
       [id |-> 2, question |-> "Age:",
        type |-> "number", required_when |-> Null],
       [id |-> 3, question |-> "Sex:",
        type |-> "choice", required_when |-> Null],
       [id |-> 4, question |-> "Date of Birth (DD/MM/YYYY):",
        type |-> "date", required_when |-> Null],
       [id |-> 5, question |-> "Marital Status:",
        type |-> "text", required_when |-> Null],
       [id |-> 6, question |-> "Occupation:",
        type |-> "text", required_when |-> Null],
       [id |-> 7, question |-> "Phone Number:",
        type |-> "text", required_when |-> Null],
       [id |-> 8, question |-> "Location:",
        type |-> "text", required_when |-> Null],
       [id |-> 9, question |-> "Have you ever been diagnosed with diabetes?",
        type |-> "choice", required_when |-> Null],
       [id |-> 10, question |-> "If yes, when? (YYYY-MM-DD)",
        type |-> "date", required_when |-> Some([questionId |-> 9, values |-> << "Yes" >>])],
       [id |-> 11, question |-> "Type of Diabetes:",
        type |-> "choice", required_when |-> Null],
       [id |-> 12, question |-> "Family history of diabetes?",
        type |-> "choice", required_when |-> Null],
       [id |-> 13, question |-> "If yes, who?",
        type |-> "text", required_when |-> Some([questionId |-> 12, values |-> << "Yes" >>])],
       [id |-> 14, question |-> "Are you currently on diabetes medications?",
        type |-> "choice", required_when |-> Null],
       [id |-> 15, question |-> "If yes, which ones?",
        type |-> "text", required_when |-> Some([questionId |-> 14, values |-> << "Yes" >>])],
       [id |-> 16, question |-> "Have you ever been on insulin?",
        type |-> "choice", required_when |-> Null],
       [id |-> 17, question |-> "Any other diagnosed health conditions?",
        type |-> "text", required_when |-> Null],
       [id |-> 18, question |-> "Allergies (food or drug):",
        type |-> "text", required_when |-> Null],
       [id |-> 19, question |-> "Smoking:",
        type |-> "choice", required_when |-> Null],
       [id |-> 20, question |-> "Alcohol:",
        type |-> "choice", required_when |-> Null],
       [id |-> 21, question |-> "Physical activity:",
        type |-> "choice", required_when |-> Null],
       [id |-> 22, question |-> "What type of activity?",
        type |-> "text", required_when |-> Null],
       [id |-> 23, question |-> "Sleep patterns:",
        type |-> "choice", required_when |-> Null],
       [id |-> 24, question |-> "Average hours per night:",
        type |-> "number", required_when |-> Null],
       [id |-> 25, question |-> "Stress level:",
        type |-> "choice", required_when |-> Null],
       [id |-> 26, question |-> "How many meals do you eat per day?",
        type |-> "number", required_when |-> Null],
       [id |-> 27, question |-> "Do you eat late at night?",
        type |-> "choice", required_when |-> Null],
       [id |-> 28, question |-> "How often do you eat Rice/Yam/Cassava foods?",
        type |-> "choice", required_when |-> Null],
       [id |-> 29, question |-> "How often do you eat Vegetables/leafy greens?",
        type |-> "choice", required_when |-> Null],
       [id |-> 30, question |-> "How often do you eat Sugary drinks/snacks?",
        type |-> "choice", required_when |-> Null],
       [id |-> 31, question |-> "Symptoms in past 3 months (tick all that apply):",
        type |-> "multiselect", required_when |-> Null],
       [id |-> 32, question |-> "Last known blood sugar reading (Fasting):",
        type |-> "text", required_when |-> Null],
       [id |-> 33, question |-> "Last known HbA1c (if tested):",
        type |-> "text", required_when |-> Null],
       [id |-> 34, question |-> "Current weight (kg):",
        type |-> "number", required_when |-> Null],
       [id |-> 35, question |-> "Height (cm):",
        type |-> "number", required_when |-> Null],
       [id |-> 36, question |-> "Waist circumference (cm):",
        type |-> "number", required_when |-> Null],
       [id |-> 37, question |-> "Blood pressure (last reading, if known):",
        type |-> "text", required_when |-> Null],
       [id |-> 38, question |-> "What are your main health goals?",
        type |-> "textarea", required_when |-> Null],
       [id |-> 39, question |-> "What challenges do you face in managing your diabetes?",
        type |-> "textarea", required_when |-> Null] >>

HBP_QUESTIONS ==
    << [id |-> 1, question |-> "Full Name:",
        type |-> "text", required_when |-> Null],
       [id |-> 2, question |-> "Date of Birth (DD/MM/YYYY):",
        type |-> "date", required_when |-> Null],
       [id |-> 3, question |-> "Age:",
        type |-> "number", required_when |-> Null],
       [id |-> 4, question |-> "Gender:",
        type |-> "choice", required_when |-> Null],
       [id |-> 5, question |-> "Marital Status:",
        type |-> "text", required_when |-> Null],
       [id |-> 6, question |-> "Address:",
        type |-> "text", required_when |-> Null],
       [id |-> 7, question |-> "Phone Number:",
        type |-> "text", required_when |-> Null],
       [id |-> 8, question |-> "Email:",
        type |-> "email", required_when |-> Null],
       [id |-> 9, question |-> "Occupation:",
        type |-> "text", required_when |-> Null],
       [id |-> 10, question |-> "Do you have a history of high blood pressure (hypertension)?",
        type |-> "choice", required_when |-> Null],
       [id |-> 11, question |-> "If yes, for how long?",
        type |-> "text", required_when |-> Some([questionId |-> 10, values |-> << "Yes" >>])],
       [id |-> 12, question |-> "Family history of high blood pressure?",
        type |-> "choice", required_when |-> Null],
       [id |-> 13, question |-> "If yes, indicate relation:",
        type |-> "text", required_when |-> Some([questionId |-> 12, values |-> << "Yes" >>])],
       [id |-> 14, question |-> "Other family health conditions:",
        type |-> "textarea", required_when |-> Null],
       [id |-> 15, question |-> "Personal medical history:",
        type |-> "textarea", required_when |-> Null],
       [id |-> 16, question |-> "Do you take medication for high blood pressure?",
        type |-> "choice", required_when |-> Null],
       [id |-> 17, question |-> "If yes, please list:",
        type |-> "textarea", required_when |-> Some([questionId |-> 16, values |-> << "Yes" >>])],
       [id |-> 18, question |-> "Any herbal remedies or supplements currently used?",
        type |-> "choice", required_when |-> Null],
       [id |-> 19, question |-> "If yes, specify:",
        type |-> "textarea", required_when |-> Some([questionId |-> 18, values |-> << "Yes" >>])],
       [id |-> 20, question |-> "How often do you eat fruits/vegetables?",
        type |-> "choice", required_when |-> Null],
       [id |-> 21, question |-> "Salt intake:",
        type |-> "choice", required_when |-> Null],
       [id |-> 22, question |-> "Do you eat processed/fast food regularly?",
        type |-> "choice", required_when |-> Null],
       [id |-> 23, question |-> "Alcohol consumption:",
        type |-> "choice", required_when |-> Null],
       [id |-> 24, question |-> "Do you exercise?",
        type |-> "choice", required_when |-> Null],
       [id |-> 25, question |-> "If yes, what type and how often?",
        type |-> "textarea", required_when |-> Some([questionId |-> 24, values |-> << "Yes" >>])],
       [id |-> 26, question |-> "Do you smoke?",
        type |-> "choice", required_when |-> Null],
       [id |-> 27, question |-> "If yes, how many sticks per day?",
        type |-> "text", required_when |-> Some([questionId |-> 26, values |-> << "Yes" >>])],
       [id |-> 28, question |-> "How would you rate your daily stress?",
        type |-> "choice", required_when |-> Null],
       [id |-> 29, question |-> "Common stress triggers:",
        type |-> "textarea", required_when |-> Null],
       [id |-> 30, question |-> "Hours of sleep per night:",
        type |-> "number", required_when |-> Null],
       [id |-> 31, question |-> "Sleep quality:",
        type |-> "choice", required_when |-> Null],
       [id |-> 32, question |-> "Symptoms (tick all that apply):",
        type |-> "multiselect", required_when |-> Null],
       [id |-> 33, question |-> "Current Blood Pressure Reading:",
        type |-> "text", required_when |-> Null],
       [id |-> 34, question |-> "Heart Rate (Pulse):",
        type |-> "number", required_when |-> Null],
       [id |-> 35, question |-> "Weight (kg):",
        type |-> "number", required_when |-> Null],
       [id |-> 36, question |-> "Height (cm):",
        type |-> "number", required_when |-> Null],
       [id |-> 37, question |-> "Body Mass Index (BMI):",
        type |-> "text", required_when |-> Null],
       [id |-> 38, question |-> "Waist Circumference (cm):",
        type |-> "number", required_when |-> Null],
       [id |-> 39, question |-> "What do you hope to achieve by managing your blood pressure?",
        type |-> "textarea", required_when |-> Null] >>

WEIGHT_QUESTIONS ==
    << [id |-> 1, question |-> "Full Name:",
        type |-> "text", required_when |-> Null],
       [id |-> 2, question |-> "Date of Birth (DD/MM/YYYY):",
        type |-> "date", required_when |-> Null],
       [id |-> 3, question |-> "Age:",
        type |-> "number", required_when |-> Null],
       [id |-> 4, question |-> "Gender:",
        type |-> "choice", required_when |-> Null],
       [id |-> 5, question |-> "Marital Status:",
        type |-> "text", required_when |-> Null],
       [id |-> 6, question |-> "Address:",
        type |-> "text", required_when |-> Null],
       [id |-> 7, question |-> "Phone Number:",
        type |-> "text", required_when |-> Null],
       [id |-> 8, question |-> "Email:",
        type |-> "email", required_when |-> Null],
       [id |-> 9, question |-> "Occupation:",
        type |-> "text", required_when |-> Null],
       [id |-> 10, question |-> "Family history of obesity?",
        type |-> "choice", required_when |-> Null],
       [id |-> 11, question |-> "If yes, indicate relation:",
        type |-> "text", required_when |-> Some([questionId |-> 10, values |-> << "Yes" >>])],
       [id |-> 12, question |-> "Family history of related health conditions:",
        type |-> "textarea", required_when |-> Null],
       [id |-> 13, question |-> "Personal medical history:",
        type |-> "textarea", required_when |-> Null],
       [id |-> 14, question |-> "Are you currently on medication?",
        type |-> "choice", required_when |-> Null],
       [id |-> 15, question |-> "If yes, list:",
        type |-> "textarea", required_when |-> Some([questionId |-> 14, values |-> << "Yes" >>])],
       [id |-> 16, question |-> "Any herbal remedies, teas, or supplements used for weight management?",
        type |-> "choice", required_when |-> Null],
       [id |-> 17, question |-> "If yes, specify:",
        type |-> "textarea", required_when |-> Some([questionId |-> 16, values |-> << "Yes" >>])],
       [id |-> 18, question |-> "Meals per day:",
        type |-> "number", required_when |-> Null],
       [id |-> 19, question |-> "Do you eat breakfast daily?",
        type |-> "choice", required_when |-> Null],
       [id |-> 20, question |-> "Portion sizes:",
        type |-> "choice", required_when |-> Null],
       [id |-> 21, question |-> "Snacking habits:",
        type |-> "choice", required_when |-> Null],
       [id |-> 22, question |-> "Fast food/processed food intake:",
        type |-> "choice", required_when |-> Null],
       [id |-> 23, question |-> "Sugary drink intake:",
        type |-> "choice", required_when |-> Null],
       [id |-> 24, question |-> "Alcohol consumption:",
        type |-> "choice", required_when |-> Null],
       [id |-> 25, question |-> "Do you exercise regularly?",
        type |-> "choice", required_when |-> Null],
       [id |-> 26, question |-> "If yes, what type and how often?",
        type |-> "textarea", required_when |-> Some([questionId |-> 25, values |-> << "Yes" >>])],
       [id |-> 27, question |-> "If no, main barriers:",
        type |-> "textarea", required_when |-> Some([questionId |-> 25, values |-> << "No" >>])],
       [id |-> 28, question |-> "Smoking:",
        type |-> "choice", required_when |-> Null],
       [id |-> 29, question |-> "Hours of sleep per night:",
        type |-> "number", required_when |-> Null],
       [id |-> 30, question |-> "Sleep quality:",
        type |-> "choice", required_when |-> Null],
       [id |-> 31, question |-> "Daily stress:",
        type |-> "choice", required_when |-> Null],
       [id |-> 32, question |-> "Common stress triggers:",
        type |-> "textarea", required_when |-> Null],
       [id |-> 33, question |-> "Tick all that apply:",
        type |-> "multiselect", required_when |-> Null],
       [id |-> 34, question |-> "Current Weight (kg):",
        type |-> "number", required_when |-> Null],
       [id |-> 35, question |-> "Height (cm):",
        type |-> "number", required_when |-> Null],
       [id |-> 36, question |-> "Body Mass Index (BMI):",
        type |-> "text", required_when |-> Null],
       [id |-> 37, question |-> "Waist Circumference (cm):",
        type |-> "number", required_when |-> Null],
       [id |-> 38, question |-> "Hip Circumference (cm):",
        type |-> "number", required_when |-> Null],
       [id |-> 39, question |-> "Waist-to-Hip Ratio:",
        type |-> "text", required_when |-> Null],
       [id |-> 40, question |-> "Blood Pressure:",
        type |-> "text", required_when |-> Null],
       [id |-> 41, question |-> "Heart Rate:",
        type |-> "number", required_when |-> Null],
       [id |-> 42, question |-> "What are your main goals in managing obesity?",
        type |-> "textarea", required_when |-> Null] >>

DETOX_QUESTIONS ==
    << [id |-> 1, question |-> "Full Name:",
        type |-> "text", required_when |-> Null],
       [id |-> 2, question |-> "Date of Birth (DD/MM/YYYY):",
        type |-> "date", required_when |-> Null],
       [id |-> 3, question |-> "Age:",
        type |-> "number", required_when |-> Null],
       [id |-> 4, question |-> "Gender:",
        type |-> "choice", required_when |-> Null],
       [id |-> 5, question |-> "Marital Status:",
        type |-> "text", required_when |-> Null],
       [id |-> 6, question |-> "Address:",
        type |-> "text", required_when |-> Null],
       [id |-> 7, question |-> "Phone Number:",
        type |-> "text", required_when |-> Null],
       [id |-> 8, question |-> "Email:",
        type |-> "email", required_when |-> Null],
       [id |-> 9, question |-> "Occupation:",
        type |-> "text", required_when |-> Null],
       [id |-> 10, question |-> "Do you consider yourself generally healthy?",
        type |-> "choice", required_when |-> Null],
       [id |-> 11, question |-> "If no, explain:",
        type |-> "textarea", required_when |-> Some([questionId |-> 10, values |-> << "No" >>])],
       [id |-> 12, question |-> "Family history of chronic illnesses:",
        type |-> "textarea", required_when |-> Null],
       [id |-> 13, question |-> "Personal medical history:",
        type |-> "textarea", required_when |-> Null],
       [id |-> 14, question |-> "Current medications or supplements:",
        type |-> "textarea", required_when |-> Null],
       [id |-> 15, question |-> "Meals per day:",
        type |-> "number", required_when |-> Null],
       [id |-> 16, question |-> "Water intake (glasses per day):",
        type |-> "number", required_when |-> Null],
       [id |-> 17, question |-> "Fruits/vegetables:",
        type |-> "choice", required_when |-> Null],
       [id |-> 18, question |-> "Processed/packaged food intake:",
        type |-> "choice", required_when |-> Null],
       [id |-> 19, question |-> "Salt intake:",
        type |-> "choice", required_when |-> Null],
       [id |-> 20, question |-> "Sugar/sweet drinks:",
        type |-> "choice", required_when |-> Null],
       [id |-> 21, question |-> "Alcohol:",
        type |-> "choice", required_when |-> Null],
       [id |-> 22, question |-> "Caffeine:",
        type |-> "choice", required_when |-> Null],
       [id |-> 23, question |-> "Do you exercise regularly?",
        type |-> "choice", required_when |-> Null],
       [id |-> 24, question |-> "If yes, type and frequency:",
        type |-> "textarea", required_when |-> Some([questionId |-> 23, values |-> << "Yes" >>])],
       [id |-> 25, question |-> "Average hours of sleep:",
        type |-> "number", required_when |-> Null],
       [id |-> 26, question |-> "Sleep quality:",
        type |-> "choice", required_when |-> Null],
       [id |-> 27, question |-> "Daily stress:",
        type |-> "choice", required_when |-> Null],
       [id |-> 28, question |-> "Stress management methods:",
        type |-> "textarea", required_when |-> Null],
       [id |-> 29, question |-> "Smoking:",
        type |-> "choice", required_when |-> Null],
       [id |-> 30, question |-> "Recreational drugs:",
        type |-> "choice", required_when |-> Null],
       [id |-> 31, question |-> "Past 6 months symptoms (tick all that apply):",
        type |-> "multiselect", required_when |-> Null],
       [id |-> 32, question |-> "Weight (kg):",
        type |-> "number", required_when |-> Null],
       [id |-> 33, question |-> "Height (cm):",
        type |-> "number", required_when |-> Null],
       [id |-> 34, question |-> "BMI:",
        type |-> "text", required_when |-> Null],
       [id |-> 35, question |-> "Waist circumference (cm):",
        type |-> "number", required_when |-> Null],
       [id |-> 36, question |-> "Blood pressure:",
        type |-> "text", required_when |-> Null],
       [id |-> 37, question |-> "Resting heart rate:",
        type |-> "number", required_when |-> Null],
       [id |-> 38, question |-> "What do you want to achieve with a detox & prevention plan?",
        type |-> "textarea", required_when |-> Null] >>

None == [kind |-> "none", v |-> ""]

Str(s) == [kind |-> "str", v |-> s]

\* dict.get(key): None when the key is absent
get(d, key) == IF key \in DOMAIN d THEN d[key] ELSE None

Whitespace == { " ", "\t", "\n", "\r" }

RECURSIVE strip(_)
strip(s) ==
    IF Len(s) = 0 THEN s
    ELSE IF CharAt(s, 1) \in Whitespace THEN strip(SubSeq(s, 2, Len(s)))
    ELSE IF CharAt(s, Len(s)) \in Whitespace THEN strip(SubSeq(s, 1, Len(s) - 1))
    ELSE s

Digits == { "0", "1", "2", "3", "4", "5", "6", "7", "8", "9" }

\* float(str) succeeds: surrounding whitespace, a sign, then inf, infinity,
\* nan, or a decimal with an optional fraction and an optional exponent;
\* single underscores are allowed between two digits
float_of_str_succeeds(s) ==
    LET Unsigned(t) ==
            IF Len(t) > 0 /\ CharAt(t, 1) \in { "+", "-" } THEN SubSeq(t, 2, Len(t)) ELSE t
        DigitPart(t) ==
            /\ Len(t) > 0
            /\ \A i \in 1..Len(t) :
                    \/ CharAt(t, i) \in Digits
                    \/ /\ CharAt(t, i) = "_"
                       /\ 1 < i /\ i < Len(t)
                       /\ CharAt(t, i - 1) \in Digits
                       /\ CharAt(t, i + 1) \in Digits
        low == lower(Unsigned(strip(s)))
        es == { i \in 1..Len(low) : CharAt(low, i) = "e" }
        epos == IF es = {} THEN Len(low) + 1 ELSE CHOOSE i \in es : \A j \in es : i <= j
        mant == SubSeq(low, 1, epos - 1)
        expo == SubSeq(low, epos + 1, Len(low))
        ds == { i \in 1..Len(mant) : CharAt(mant, i) = "." }
        dpos == IF ds = {} THEN Len(mant) + 1 ELSE CHOOSE i \in ds : \A j \in ds : i <= j
        whole == SubSeq(mant, 1, dpos - 1)
        frac == SubSeq(mant, dpos + 1, Len(mant))
    IN  \/ low \in { "inf", "infinity", "nan" }
        \/ /\ Len(whole) = 0 \/ DigitPart(whole)
           /\ Len(frac) = 0 \/ DigitPart(frac)
           /\ Len(whole) + Len(frac) > 0
           /\ es # {} => DigitPart(Unsigned(expo))

\* float(val) succeeds: a number or a bool converts, a string is parsed, None
\* and a list raise TypeError
float_succeeds(val) ==
    CASE val.kind \in { "num", "bool" } -> TRUE
      [] val.kind = "str" -> float_of_str_succeeds(val.v)
      [] OTHER -> FALSE

get_questions(category) ==
    LET cat == lower(category)
    IN  IF cat = "diabetes" THEN DIABETES_QUESTIONS
        ELSE IF cat \in { "hbp", "high blood pressure", "hypertension" } THEN HBP_QUESTIONS
        ELSE IF cat \in { "weight", "weight management", "obesity" } THEN WEIGHT_QUESTIONS
        ELSE IF cat = "detox" THEN DETOX_QUESTIONS
        ELSE << >>

_get_answer_by_question_id(questions, answers, ref_id) ==
    LET known == { k \in 1..Len(questions) : questions[k].id = ref_id }
        \* a dict comprehension keeps the last question of an id
        label == IF known = {} THEN ""
                 ELSE questions[CHOOSE k \in known : \A j \in known : j <= k].question
    IN  IF label = "" THEN None ELSE get(answers, label)

_value_is_filled_number_positive(qtype, val) ==
    IF qtype \in { "text", "email", "date", "textarea", "choice" }
    THEN val.kind = "str" /\ strip(val.v) # ""
    ELSE IF qtype = "number"
    THEN val.kind = "num" /\ val.v \notin { "0", "0.0" }
    ELSE IF qtype = "multiselect"
    THEN val.kind = "list" /\ val.v # "[]"
    ELSE val # None /\ val # Str("")

_value_is_filled(qtype, val) ==
    IF qtype \in { "text", "email", "date", "textarea", "choice" }
    THEN val.kind = "str" /\ strip(val.v) # ""
    ELSE IF qtype = "number"
    THEN IF val = Str("") \/ val = None THEN FALSE ELSE float_succeeds(val)
    ELSE IF qtype = "multiselect"
    THEN val.kind = "list" /\ val.v # "[]"
    ELSE val # None /\ val # Str("")

is_required_always(question, answers, questions) == TRUE

is_required(question, answers, questions) ==
    LET cond == question.required_when
    IN  IF IsNull(cond) THEN TRUE
        ELSE LET ref_id == cond[1].questionId
                 values == cond[1].values
                 ref_val == _get_answer_by_question_id(questions, answers, ref_id)
             IN  ref_val.kind = "str" /\ InList(ref_val.v, values)

validate_answers(category, answers) ==
    LET qs == get_questions(category)
        RECURSIVE loop(_, _)
        loop(k, missing) ==
            IF k > Len(qs) THEN missing
            ELSE LET q == qs[k]
                     req == is_required(q, answers, qs)
                     label == q.question
                     val == get(answers, label)
                 IN  IF ~req THEN loop(k + 1, missing)
                     ELSE IF ~_value_is_filled(q.type, val)
                     THEN loop(k + 1, Append(missing, label))
                     ELSE loop(k + 1, missing)
    IN  loop(1, << >>)
(***************************************************************************)
(* Calls of validate_answers and is_required.  An answer set is the        *)
(* category's fully answered form with up to MaxEdits answers replaced or  *)
(* dropped.                                                                *)
(***************************************************************************)
MaxEdits == 2

Categories == { "diabetes", "hbp", "weight", "detox", "Hypertension", "keto" }

Absent == [kind |-> "absent", v |-> ""]

ValueChoices ==
    { Absent, None, Str(""), Str(" \t"), Str("Yes"), Str("No"), Str("12.5"), Str("abc"),
      [kind |-> "num", v |-> "0"], [kind |-> "bool", v |-> "True"],
      [kind |-> "list", v |-> "[]"], [kind |-> "list", v |-> "[Fatigue]"] }

\* the answer a guest who fills the whole form gives to a question
FilledAnswer(q) ==
    CASE q.type = "number" -> [kind |-> "num", v |-> "5"]
      [] q.type = "multiselect" -> [kind |-> "list", v |-> "[Fatigue]"]
      [] q.type = "choice" -> Str("Yes")
      [] q.type = "date" -> Str("1990-01-01")
      [] q.type = "email" -> Str("ada@example.com")
      [] OTHER -> Str("Ada")

\* the questions whose answers vary: a text, a number, a multiselect, and a
\* conditional question with the question it refers to
EditIds(category) ==
    LET cat == lower(category)
    IN  CASE cat = "diabetes" -> { 1, 2, 9, 10, 31 }
          [] cat \in { "hbp", "hypertension" } -> { 3, 8, 10, 11, 32 }
          [] cat = "weight" -> { 3, 25, 26, 27, 33 }
          [] cat = "detox" -> { 2, 10, 11, 15, 31 }
          [] OTHER -> {}

AnswerSets(category, edits) ==
    LET qs == get_questions(category)
        at(id) == CHOOSE k \in 1..Len(qs) : qs[k].id = id
        changes == UNION { [ids -> ValueChoices] :
                            ids \in { s \in SUBSET EditIds(category) : Cardinality(s) <= edits } }
        kept(ch) == { k \in 1..Len(qs) : qs[k].id \in DOMAIN ch => ch[qs[k].id] # Absent }
    IN  { [label \in { qs[k].question : k \in kept(ch) } |->
                LET q == qs[CHOOSE k \in 1..Len(qs) : qs[k].question = label]
                IN  IF q.id \in DOMAIN ch THEN ch[q.id] ELSE FilledAnswer(q)] : ch \in changes }

\* questions no catalog holds: one refers to an id the category does not
\* have, one has an empty required_when
UnknownRefQuestion ==
    [id |-> 90, question |-> "If yes, give details:", type |-> "text",
     required_when |-> Some([questionId |-> 77, values |-> << "Yes" >>])]

QuestionChoices(category) ==
    LET qs == get_questions(category)
    IN  { qs[k] : k \in { j \in 1..Len(qs) : ~IsNull(qs[j].required_when) \/ j = 1 } }
            \cup { UnknownRefQuestion }

ValidateAnswers ==
    /\ call.fn = "validate_answers"
    /\ IsNull(result)
    /\ result' = Some(validate_answers(call.category, call.answers))
    /\ UNCHANGED << submissions, meal_plans, payments, ever_paid, inflight, call >>

IsRequired ==
    /\ call.fn = "is_required"
    /\ IsNull(result)
    /\ result' = Some(is_required(call.question, call.answers, get_questions(call.category)))
    /\ UNCHANGED << submissions, meal_plans, payments, ever_paid, inflight, call >>

InitQuestions ==
    /\ submissions = << >>
    /\ meal_plans = << >>
    /\ payments = << >>
    /\ ever_paid = {}
    /\ inflight = [w \in Workers |-> Idle]
    /\ result = Null
    /\ \E category \in Categories :
            \/ \E answers \in AnswerSets(category, MaxEdits) :
                    call = [fn |-> "validate_answers", category |-> category,
                            answers |-> answers]
            \/ \E answers \in AnswerSets(category, 1), question \in QuestionChoices(category) :
                    call = [fn |-> "is_required", category |-> category,
                            question |-> question, answers |-> answers]

NextQuestions ==
    \/ ValidateAnswers
    \/ IsRequired

SpecQuestions == InitQuestions /\ [][NextQuestions]_vars

\* C11: validate_answers returns exactly the labels of the questions that
\* is_required deems required and whose answer is not filled for the
\* question's type (a non-blank string for text, email, date, textarea and
\* choice; a non-empty value float() accepts for number, so 0 is filled; a
\* non-empty list for multiselect), in catalog order; so it returns the empty
\* list iff every required question is filled.
ValidateAnswersListsUnfilledRequired ==
    (call.fn = "validate_answers" /\ ~IsNull(result)) =>
        LET qs == get_questions(call.category)
            val(q) == get(call.answers, q.question)
            filled(q) ==
                CASE q.type = "number" ->
                        /\ val(q) # None
                        /\ val(q) # Str("")
                        /\ float_succeeds(val(q))
                  [] q.type = "multiselect" -> val(q).kind = "list" /\ val(q).v # "[]"
                  [] OTHER -> val(q).kind = "str" /\ strip(val(q).v) # ""
            unfilled == SelectSeq(qs, LAMBDA q : is_required(q, call.answers, qs) /\ ~filled(q))
        IN  /\ result[1] = [k \in 1..Len(unfilled) |-> unfilled[k].question]
            /\ result[1] = << >> <=>
                    \A k \in 1..Len(qs) : is_required(qs[k], call.answers, qs) => filled(qs[k])

\* a number answered 0 is accepted, and the conditional question that the "Yes"
\* before it makes required is reported
ValidateAnswersReportsInOrder ==
    /\ call.fn = "validate_answers"
    /\ call.category = "diabetes"
    /\ get(call.answers, "Age:") = [kind |-> "num", v |-> "0"]
    /\ result = Some(<< "If yes, when? (YYYY-MM-DD)" >>)

\* C12: is_required is true for a question without required_when; with
\* required_when it is true iff the answer stored under the referenced
\* question's label is one of the values, and false when the referenced id
\* names no question of the category or that question is unanswered.
IsRequiredFollowsReference ==
    (call.fn = "is_required" /\ ~IsNull(result)) =>
        LET qs == get_questions(call.category)
            cond == call.question.required_when
            refs == { k \in 1..Len(qs) : qs[k].id = cond[1].questionId }
        IN  result[1] =
                \/ IsNull(cond)
                \/ \E k \in refs :
                        /\ qs[k].question \in DOMAIN call.answers
                        /\ call.answers[qs[k].question].kind = "str"
                        /\ \E i \in 1..Len(cond[1].values) :
                                call.answers[qs[k].question].v = cond[1].values[i]

\* the referenced id names no question of the category: not required
UnknownReferenceNotRequired ==
    /\ call.fn = "is_required"
    /\ call.category = "diabetes"
    /\ call.question = UnknownRefQuestion
    /\ result = Some(FALSE)

(***************************************************************************)
(* utils/assessment.py: the deterministic classifiers and assess_level.    *)
(* A float is kept as an integer count of hundredths (Scale), an           *)
(* Optional[float] as Null or Some(n); blood-pressure readings, which the  *)
(* pattern reads as two or three digits, are whole numbers.  The answers   *)
(* studied carry no exponent, underscore, inf or nan and at most two       *)
(* decimals.  The en dash and the greater-or-equal sign of the reasoning   *)
(* texts are written "-" and ">=".                                         *)
(***************************************************************************)
Scale == 100

\* str(val)
str(val) == IF val.kind = "none" THEN "None" ELSE val.v

\* the value, in hundredths, of [sign] digits [. digits] with either digit
\* run possibly empty
decimal_value(s) ==
    LET neg == Len(s) > 0 /\ CharAt(s, 1) = "-"
        body == IF Len(s) > 0 /\ CharAt(s, 1) \in { "+", "-" } THEN SubSeq(s, 2, Len(s)) ELSE s
        ds == { i \in 1..Len(body) : CharAt(body, i) = "." }
        dpos == IF ds = {} THEN Len(body) + 1 ELSE CHOOSE i \in ds : TRUE
        whole == SubSeq(body, 1, dpos - 1)
        frac == SubSeq(body, dpos + 1, Len(body)) \o "00"
        DigitValue(c) == CHOOSE d \in 0..9 : ToString(d) = c
        RECURSIVE digits(_, _)
        digits(t, acc) ==
            IF Len(t) = 0 THEN acc
            ELSE digits(SubSeq(t, 2, Len(t)), 10 * acc + DigitValue(CharAt(t, 1)))
        abs == Scale * digits(whole, 0) + digits(SubSeq(frac, 1, 2), 0)
    IN  IF neg THEN 0 - abs ELSE abs

\* float(val) where it succeeds
float_value(val) ==
    CASE val.kind = "bool" -> IF val.v = "True" THEN Scale ELSE 0
      [] val.kind = "num" -> decimal_value(val.v)
      [] val.kind = "str" -> decimal_value(strip(val.v))

\* re.search(r"-?\d+(\.\d+)?", s): the leftmost match, each run as long as
\* it can be; "" when there is none
first_number(s) ==
    LET digit(i) == i <= Len(s) /\ CharAt(s, i) \in Digits
        starts == { i \in 1..Len(s) : digit(i) \/ (CharAt(s, i) = "-" /\ digit(i + 1)) }
        from == CHOOSE i \in starts : \A j \in starts : i <= j
        first == IF CharAt(s, from) = "-" THEN from + 1 ELSE from
        RECURSIVE run(_)
        run(i) == IF digit(i + 1) THEN run(i + 1) ELSE i
        whole == run(first)
        to == IF whole + 2 <= Len(s) /\ CharAt(s, whole + 1) = "." /\ digit(whole + 2)
              THEN run(whole + 2) ELSE whole
    IN  IF starts = {} THEN "" ELSE SubSeq(s, from, to)

_to_number(text) ==
    IF text = None \/ text = Str("") THEN Null
    ELSE IF float_succeeds(text) THEN Some(float_value(text))
    ELSE LET m == first_number(str(text))
         IN  IF m # "" THEN Some(decimal_value(m)) ELSE Null

\* re.search(r"(\d{2,3})\s*/\s*(\d{2,3})", s): << sys, dia >>, each Null or
\* Some(whole number)
_parse_bp(bp_text) ==
    IF bp_text = None \/ bp_text = Str("") THEN << Null, Null >>
    ELSE LET s == str(bp_text)
             digit(i) == i >= 1 /\ i <= Len(s) /\ CharAt(s, i) \in Digits
             \* the digits \d{2,3} takes at i: three if it can, else two
             taken(i) == IF digit(i) /\ digit(i + 1)
                         THEN (IF digit(i + 2) THEN 3 ELSE 2) ELSE 0
             RECURSIVE skip(_)
             skip(i) == IF i <= Len(s) /\ CharAt(s, i) \in Whitespace THEN skip(i + 1) ELSE i
             \* giving a digit back never helps: the next character would be
             \* a digit, which neither \s nor "/" matches
             slash(i) == skip(i + taken(i))
             second(i) == skip(slash(i) + 1)
             matches(i) ==
                /\ taken(i) > 0
                /\ slash(i) <= Len(s) /\ CharAt(s, slash(i)) = "/"
                /\ taken(second(i)) > 0
             starts == { i \in 1..Len(s) : matches(i) }
             from == CHOOSE i \in starts : \A j \in starts : i <= j
             number(i) == decimal_value(SubSeq(s, i, i + taken(i) - 1)) \div Scale
         IN  IF starts = {} THEN << Null, Null >>
             ELSE << Some(number(from)), Some(number(second(from))) >>

\* the text Python prints for a float of at most two decimals
fmt_float(n) ==
    LET abs == IF n < 0 THEN 0 - n ELSE n
        frac == abs % Scale
    IN  (IF n < 0 THEN "-" ELSE "") \o ToString(abs \div Scale) \o "."
            \o ToString(frac \div 10)
            \o (IF frac % 10 = 0 THEN "" ELSE ToString(frac % 10))

RECURSIVE join(_, _)
join(sep, parts) ==
    IF Len(parts) = 0 THEN ""
    ELSE IF Len(parts) = 1 THEN parts[1]
    ELSE parts[1] \o sep \o join(sep, Tail(parts))

_compute_bmi(weight_kg, height_cm) ==
    IF IsNull(weight_kg) \/ IsNull(height_cm) THEN Null
    ELSE IF height_cm[1] <= 0 THEN Null
    ELSE \* round(weight / (height / 100) ** 2, 1), to the nearest tenth; the
         \* height is first reduced by the power of ten it is a multiple of
         LET k == IF height_cm[1] % 100 = 0 THEN 100
                  ELSE IF height_cm[1] % 10 = 0 THEN 10 ELSE 1
             h == height_cm[1] \div k
             tenths == (2 * weight_kg[1] * (10000000 \div (k * k)) + h * h) \div (2 * h * h)
         IN  Some(10 * tenths)

_classify_diabetes_bp_raises(answers) ==
    LET bp == _parse_bp(get(answers, "Blood pressure (last reading, if known):"))
        fbs == _to_number(get(answers, "Last known blood sugar reading (Fasting):"))
        level == IF ~IsNull(bp[1]) /\ bp[1][1] >= 160 THEN 3
                 ELSE IF ~IsNull(fbs) /\ fbs[1] > 180 * Scale THEN 3
                 ELSE IF ~IsNull(fbs) /\ fbs[1] >= 126 * Scale THEN 2
                 ELSE 1
    IN  [condition |-> "diabetes", level |-> level, label |-> LevelLabel(level),
         metrics |-> [fbs_mg_dl |-> fbs, hba1c_percent |-> Null, bp |-> Null],
         reasoning |-> ""]

_classify_diabetes(answers) ==
    LET rules(fbs, hba1c, sys, dia) ==
            LET fbs_rule ==
                    IF IsNull(fbs) THEN << 1, << >> >>
                    ELSE IF fbs[1] > 180 * Scale
                    THEN << 3, << "FBS " \o fmt_float(fbs[1]) \o " mg/dL > 180 -> Level 3" >> >>
                    ELSE IF 126 * Scale <= fbs[1] /\ fbs[1] <= 180 * Scale
                    THEN << 2, << "FBS " \o fmt_float(fbs[1])
                                    \o " mg/dL in 126-180 -> Level 2" >> >>
                    ELSE IF 100 * Scale <= fbs[1] /\ fbs[1] <= 125 * Scale
                    THEN << 1, << "FBS " \o fmt_float(fbs[1])
                                    \o " mg/dL in 100-125 -> Level 1" >> >>
                    ELSE << 1, << >> >>
                hba1c_rule ==
                    IF IsNull(hba1c) THEN << 1, << >> >>
                    ELSE IF hba1c[1] >= 800
                    THEN << 3, << "HbA1c " \o fmt_float(hba1c[1]) \o "% >= 8 -> Level 3" >> >>
                    ELSE IF 650 <= hba1c[1] /\ hba1c[1] <= 790
                    THEN << 2, << "HbA1c " \o fmt_float(hba1c[1])
                                    \o "% in 6.5-7.9 -> Level 2" >> >>
                    ELSE IF 570 <= hba1c[1] /\ hba1c[1] <= 640
                    THEN << 1, << "HbA1c " \o fmt_float(hba1c[1])
                                    \o "% in 5.7-6.4 -> Level 1" >> >>
                    ELSE << 1, << >> >>
                bp_note ==
                    IF ~IsNull(sys) /\ ~IsNull(dia)
                    THEN << "BP reading noted: " \o ToString(sys[1]) \o "/"
                                \o ToString(dia[1]) \o " mmHg" >>
                    ELSE << >>
                \* level = max(level, ...) of each rule that fires
                finish(level, reasons) ==
                    [condition |-> "diabetes",
                     level |-> level,
                     label |-> LevelLabel(level),
                     metrics |-> [fbs_mg_dl |-> fbs, hba1c_percent |-> hba1c,
                                  bp |-> IF ~IsNull(sys) /\ ~IsNull(dia)
                                            /\ sys[1] # 0 /\ dia[1] # 0
                                         THEN Some(ToString(sys[1]) \o "/" \o ToString(dia[1]))
                                         ELSE Null],
                     reasoning |-> IF Len(reasons) > 0 THEN join("; ", reasons)
                                   ELSE "Insufficient metrics; defaulted to Level 1 (mild)."]
            IN  finish(IF fbs_rule[1] >= hba1c_rule[1] THEN fbs_rule[1] ELSE hba1c_rule[1],
                       fbs_rule[2] \o hba1c_rule[2] \o bp_note)
        parsed(bp) ==
            rules(_to_number(get(answers, "Last known blood sugar reading (Fasting):")),
                  _to_number(get(answers, "Last known HbA1c (if tested):")),
                  bp[1], bp[2])
    IN  parsed(_parse_bp(get(answers, "Blood pressure (last reading, if known):")))

_classify_hbp_systolic_only(answers) ==
    LET bp == _parse_bp(get(answers, "Current Blood Pressure Reading:"))
        level == IF IsNull(bp[1]) THEN 1
                 ELSE IF bp[1][1] >= 160 THEN 3 ELSE IF bp[1][1] >= 140 THEN 2 ELSE 1
    IN  [condition |-> "hbp", level |-> level, label |-> LevelLabel(level),
         metrics |-> [bp |-> IF IsNull(bp[1]) THEN Null
                             ELSE Some(ToString(bp[1][1]) \o "/" \o ToString(bp[2][1]))],
         reasoning |-> ""]

_classify_hbp(answers) ==
    LET rules(sys, dia) ==
            LET text == ToString(sys) \o "/" \o ToString(dia)
                finish(level, reason) ==
                    [condition |-> "hbp", level |-> level, label |-> LevelLabel(level),
                     metrics |-> [bp |-> Some(text)],
                     reasoning |-> reason]
            IN  IF sys >= 160 \/ dia >= 100
                THEN finish(3, "BP " \o text \o " >= 160/100 -> Level 3")
                ELSE IF (140 <= sys /\ sys <= 159) \/ (90 <= dia /\ dia <= 99)
                THEN finish(2, "BP " \o text \o " in 140-159/90-99 -> Level 2")
                ELSE IF (130 <= sys /\ sys <= 139) \/ (80 <= dia /\ dia <= 89)
                THEN finish(1, "BP " \o text \o " in 130-139/80-89 -> Level 1")
                ELSE finish(1, "BP " \o text
                                \o " below 130/80; classify as Level 1 if symptomatic/history.")
        parsed(bp) ==
            IF IsNull(bp[1]) \/ IsNull(bp[2])
            THEN [condition |-> "hbp", level |-> 1, label |-> "mild",
                  metrics |-> [bp |-> Null],
                  reasoning |-> "No BP reading provided; defaulted to Level 1 if history suggests prehypertension."]
            ELSE rules(bp[1][1], bp[2][1])
    IN  parsed(_parse_bp(get(answers, "Current Blood Pressure Reading:")))

_classify_weight(answers) ==
    LET rules(bmi) ==
            LET finish(level, reason) ==
                    [condition |-> "weight", level |-> level, label |-> LevelLabel(level),
                     metrics |-> [bmi |-> bmi], reasoning |-> reason]
            IN  IF IsNull(bmi)
                THEN finish(1, "Insufficient data to compute BMI; defaulted to Level 1.")
                ELSE IF bmi[1] >= 40 * Scale
                THEN finish(3, "BMI " \o fmt_float(bmi[1]) \o " >= 40 -> Level 3")
                ELSE IF 30 * Scale <= bmi[1] /\ bmi[1] <= 3990
                THEN finish(2, "BMI " \o fmt_float(bmi[1]) \o " in 30-39.9 -> Level 2")
                ELSE IF 25 * Scale <= bmi[1] /\ bmi[1] <= 2990
                THEN finish(1, "BMI " \o fmt_float(bmi[1]) \o " in 25-29.9 -> Level 1")
                ELSE finish(1, "BMI " \o fmt_float(bmi[1])
                                \o " below 25; default to Level 1 if weight concerns persist.")
        given(bmi) ==
            IF IsNull(bmi)
            THEN rules(_compute_bmi(_to_number(get(answers, "Current Weight (kg):")),
                                    _to_number(get(answers, "Height (cm):"))))
            ELSE rules(bmi)
    IN  given(_to_number(get(answers, "Body Mass Index (BMI):")))

_deterministic_assessment(category, answers) ==
    LET cat == lower(category)
    IN  IF cat = "diabetes" THEN _classify_diabetes(answers)
        ELSE IF cat \in { "hbp", "high blood pressure", "hypertension" }
        THEN _classify_hbp(answers)
        ELSE IF cat \in { "weight", "weight management", "obesity" }
        THEN _classify_weight(answers)
        ELSE [condition |-> "detox", level |-> 1, label |-> "mild", metrics |-> << >>,
              reasoning |-> "Detox category: default single-tier guidance."]
\* bool(val)
truthy(val) ==
    CASE val.kind = "none" -> FALSE
      [] val.kind = "num" -> decimal_value(val.v) # 0
      [] val.kind = "bool" -> val.v = "True"
      [] val.kind = "list" -> val.v # "[]"
      [] val.kind = "dict" -> val.v # "{}"
      [] OTHER -> val.v # ""

\* int(val) succeeds: a number or a bool converts, a string must be a whole
\* number; None, a list and a dict raise TypeError
int_succeeds(val) ==
    CASE val.kind \in { "num", "bool" } -> TRUE
      [] val.kind = "str" ->
            LET t == strip(val.v)
                body == IF Len(t) > 0 /\ CharAt(t, 1) \in { "+", "-" }
                        THEN SubSeq(t, 2, Len(t)) ELSE t
            IN  Len(body) > 0 /\ \A i \in 1..Len(body) : CharAt(body, i) \in Digits
      [] OTHER -> FALSE

\* int(val) where it succeeds: a float is cut towards zero
int_value(val) ==
    LET n == float_value(val)
    IN  IF n < 0 THEN 0 - ((0 - n) \div Scale) ELSE n \div Scale

\* ai_out is what _prompt_json returned: the advisory service's JSON value,
\* or the empty object when the call failed
assess_level_any_level(category, answers, ai_out) ==
    IF ai_out.kind = "dict" /\ "level" \in DOMAIN ai_out.fields
          /\ int_succeeds(ai_out.fields["level"])
    THEN [condition |-> lower(str(get(ai_out.fields, "condition"))),
          level |-> int_value(ai_out.fields["level"]),
          label |-> LevelLabel(int_value(ai_out.fields["level"])),
          metrics |-> [kind |-> "dict", v |-> "{}"],
          reasoning |-> str(get(ai_out.fields, "reasoning"))]
    ELSE _deterministic_assessment(category, answers)

assess_level(category, answers, ai_out) ==
    LET field(key) == get(ai_out.fields, key)
        or_empty(val) == IF truthy(val) THEN val ELSE Str("")
        lvl == int_value(field("level"))
        said == strip(lower(str(or_empty(field("label")))))
        lbl == IF said \in { "mild", "moderate", "severe" } THEN said ELSE LevelLabel(lvl)
        metrics == IF field("metrics").kind = "dict" THEN field("metrics")
                   ELSE [kind |-> "dict", v |-> "{}"]
        reasoning == str(or_empty(field("reasoning")))
    IN  IF /\ ai_out.kind = "dict"
           /\ "level" \in DOMAIN ai_out.fields
           /\ truthy(field("condition"))
           \* int() raising lands in the except clause
           /\ int_succeeds(field("level"))
           /\ lvl \in { 1, 2, 3 }
        THEN [condition |-> lower(str(field("condition"))),
              level |-> lvl,
              label |-> lbl,
              metrics |-> metrics,
              reasoning |-> reasoning]
        ELSE _deterministic_assessment(category, answers)
(***************************************************************************)
(* Calls of the classifiers and of assess_level.                           *)
(***************************************************************************)
Num(text) == [kind |-> "num", v |-> text]

FbsChoices ==
    { Absent, None, Str(""), Str("unknown"), Str("99"), Str("100"), Str("110"), Str("125"),
      Str("125.5"), Str("126"), Str("150"), Str("180"), Str("180.5"), Str("200"),
      Str("110 mg/dL"), Num("150") }

Hba1cChoices ==
    { Absent, Str("n/a"), Str("5.6"), Str("5.7"), Str("6.4"), Str("6.45"), Str("6.5"),
      Str("7.2 %"), Str("7.9"), Str("7.95"), Str("8.0"), Num("9") }

BpChoices ==
    { Absent, None, Str(""), Str("unknown"), Str("120"), Num("120"), Str("90/60"),
      Str("120/80"), Str("135/82"), Str("135/95"), Str("139/100"), Str("140 / 95 mmHg"),
      Str("150/105"), Str("159/99"), Str("160/80"), Str("165/95"), Str("last time 130/85"),
      Str("1650/95") }

\* the answer set that holds the chosen values and leaves out the absent ones
AnswersOf(chosen) ==
    [label \in { l \in DOMAIN chosen : chosen[l] # Absent } |-> chosen[label]]

DiabetesAnswers ==
    { AnswersOf(("Last known blood sugar reading (Fasting):" :> fbs)
                    @@ ("Last known HbA1c (if tested):" :> hba1c)
                    @@ ("Blood pressure (last reading, if known):" :> bp)) :
        fbs \in FbsChoices, hba1c \in Hba1cChoices,
        bp \in { Absent, Str("unknown"), Str("120/80"), Str("165/95") } }

HbpAnswers == { AnswersOf("Current Blood Pressure Reading:" :> bp) : bp \in BpChoices }

BmiChoices ==
    { Absent, Str("n/a"), Str("24.9"), Str("25"), Str("29.9"), Str("29.95"), Str("30"),
      Str("39.9"), Str("39.95"), Str("40"), Num("45.5") }

\* a body mass index given directly, with and without weight and height
WeightAnswers ==
    { AnswersOf(("Body Mass Index (BMI):" :> bmi) @@ ("Current Weight (kg):" :> wt)
                    @@ ("Height (cm):" :> ht)) :
        bmi \in BmiChoices, wt \in { Absent, Str("80"), Str("130 kg") },
        ht \in { Absent, Str("170"), Str("0") } }

\* one answer set per category, read by the deterministic rules
AssessedAnswers ==
    ("diabetes" :> AnswersOf(("Last known blood sugar reading (Fasting):" :> Str("150"))
                                @@ ("Last known HbA1c (if tested):" :> Str("8.0"))))
        @@ ("Hypertension" :> AnswersOf("Current Blood Pressure Reading:" :> Str("135/95")))
        @@ ("weight" :> AnswersOf(("Current Weight (kg):" :> Num("95"))
                                    @@ ("Height (cm):" :> Num("170"))))
        @@ ("detox" :> AnswersOf("Full Name:" :> Str("Ada")))

Obj(fields) == [kind |-> "dict", fields |-> fields]

\* what the advisory call can hand back: the empty object of a failed call,
\* JSON values that are no object, and objects with the keys of the prompt
AdvisoryLevels ==
    << Absent, None, Num("0"), Num("1"), Num("2"), Num("3"), Num("4"), Num("2.7"), Str("3"),
       Str("high"), [kind |-> "bool", v |-> "True"] >>

AdvisoryConditions == << Absent, None, Str(""), Str("Diabetes") >>

AdvisoryLabels == << Absent, Str("mild"), Str(" Severe "), Str("critical") >>

AdvisoryRest ==
    << << >>,
       ("metrics" :> [kind |-> "dict", v |-> "{fbs: 150}"])
            @@ ("reasoning" :> Str("Rules applied.")),
       ("metrics" :> Str("none")) @@ ("reasoning" :> None) >>

AdvisoryObject(l, c, b, r) ==
    LET named == ("level" :> AdvisoryLevels[l]) @@ ("condition" :> AdvisoryConditions[c])
                    @@ ("label" :> AdvisoryLabels[b])
        given == { key \in DOMAIN named : named[key] # Absent }
    IN  Obj([key \in given |-> named[key]] @@ AdvisoryRest[r])

NotAnObject == [kind |-> "list", fields |-> << >>]

ClassifyDiabetes ==
    /\ call.fn = "_classify_diabetes"
    /\ IsNull(result)
    /\ result' = Some(_classify_diabetes(call.answers))
    /\ UNCHANGED << submissions, meal_plans, payments, ever_paid, inflight, call >>

ClassifyHbp ==
    /\ call.fn = "_classify_hbp"
    /\ IsNull(result)
    /\ result' = Some(_classify_hbp(call.answers))
    /\ UNCHANGED << submissions, meal_plans, payments, ever_paid, inflight, call >>

ClassifyWeight ==
    /\ call.fn = "_classify_weight"
    /\ IsNull(result)
    /\ result' = Some(_classify_weight(call.answers))
    /\ UNCHANGED << submissions, meal_plans, payments, ever_paid, inflight, call >>

AssessLevel ==
    /\ call.fn = "assess_level"
    /\ IsNull(result)
    /\ result' = Some(assess_level(call.category, call.answers, call.ai_out))
    /\ UNCHANGED << submissions, meal_plans, payments, ever_paid, inflight, call >>

InitAssessment ==
    /\ submissions = << >>
    /\ meal_plans = << >>
    /\ payments = << >>
    /\ ever_paid = {}
    /\ inflight = [w \in Workers |-> Idle]
    /\ result = Null
    /\ \/ \E answers \in DiabetesAnswers :
            call = [fn |-> "_classify_diabetes", answers |-> answers]
       \/ \E answers \in HbpAnswers :
            call = [fn |-> "_classify_hbp", answers |-> answers]
       \/ \E answers \in WeightAnswers :
            call = [fn |-> "_classify_weight", answers |-> answers]
       \/ \E category \in DOMAIN AssessedAnswers :
            \/ \E l \in DOMAIN AdvisoryLevels, c \in DOMAIN AdvisoryConditions,
                  b \in DOMAIN AdvisoryLabels, r \in DOMAIN AdvisoryRest :
                    call = [fn |-> "assess_level", category |-> category,
                            answers |-> AssessedAnswers[category],
                            ai_out |-> AdvisoryObject(l, c, b, r)]
            \/ call = [fn |-> "assess_level", category |-> category,
                       answers |-> AssessedAnswers[category], ai_out |-> NotAnObject]

NextAssessment ==
    \/ ClassifyDiabetes
    \/ ClassifyHbp
    \/ ClassifyWeight
    \/ AssessLevel

SpecAssessment == InitAssessment /\ [][NextAssessment]_vars

\* C13: the diabetes classifier's level is the larger of the FBS tier (above
\* 180 -> 3, 126 to 180 -> 2, 100 to 125 -> 1) and the HbA1c tier (8.0 and
\* above -> 3, 6.5 to 7.9 -> 2, 5.7 to 6.4 -> 1), an absent or below-range
\* metric counting 1, and is the level the same answers give without the
\* blood-pressure reading.
DiabetesLevelIsWorstTier ==
    (call.fn = "_classify_diabetes" /\ ~IsNull(result)) =>
        LET fbs == _to_number(get(call.answers, "Last known blood sugar reading (Fasting):"))
            hba1c == _to_number(get(call.answers, "Last known HbA1c (if tested):"))
            \* the tier of a metric, 0 for a value between two ranges
            fbs_tier == IF IsNull(fbs) THEN 1
                        ELSE IF fbs[1] > 180 * Scale THEN 3
                        ELSE IF 126 * Scale <= fbs[1] /\ fbs[1] <= 180 * Scale THEN 2
                        ELSE IF fbs[1] <= 125 * Scale THEN 1
                        ELSE 0
            hba1c_tier == IF IsNull(hba1c) THEN 1
                          ELSE IF hba1c[1] >= 800 THEN 3
                          ELSE IF 650 <= hba1c[1] /\ hba1c[1] <= 790 THEN 2
                          ELSE IF hba1c[1] <= 640 THEN 1
                          ELSE 0
            no_bp == [label \in DOMAIN call.answers
                                \ { "Blood pressure (last reading, if known):" } |->
                        call.answers[label]]
        IN  /\ (fbs_tier # 0 /\ hba1c_tier # 0) =>
                    result[1].level = IF fbs_tier >= hba1c_tier THEN fbs_tier ELSE hba1c_tier
            /\ result[1].level = _classify_diabetes(no_bp).level

\* FBS 150 and HbA1c 5.7 give level 2 although the reading 165/95 is severe
DiabetesLevelIgnoresSevereBp ==
    /\ call.fn = "_classify_diabetes"
    /\ get(call.answers, "Last known blood sugar reading (Fasting):") = Str("150")
    /\ get(call.answers, "Last known HbA1c (if tested):") = Str("5.7")
    /\ get(call.answers, "Blood pressure (last reading, if known):") = Str("165/95")
    /\ ~IsNull(result)
    /\ result[1].level = 2

\* C14: when neither the FBS nor the HbA1c answer yields a number, the
\* diabetes classifier returns level 1 with the reasoning "Insufficient
\* metrics; defaulted to Level 1 (mild).", whatever the blood-pressure answer.
NoMetricDefaultsWithInsufficientText ==
    (call.fn = "_classify_diabetes" /\ ~IsNull(result)
        /\ IsNull(_to_number(get(call.answers, "Last known blood sugar reading (Fasting):")))
        /\ IsNull(_to_number(get(call.answers, "Last known HbA1c (if tested):")))) =>
            /\ result[1].level = 1
            /\ result[1].reasoning = "Insufficient metrics; defaulted to Level 1 (mild)."

\* C15: for a parsed reading the hypertension classifier's level is the
\* larger of the systolic tier (160 and above -> 3, 140 to 159 -> 2, else 1)
\* and the diastolic tier (100 and above -> 3, 90 to 99 -> 2, else 1); without
\* a parsed reading it is 1 and the bp metric is null.
HbpLevelIsWorstTier ==
    (call.fn = "_classify_hbp" /\ ~IsNull(result)) =>
        LET bp == _parse_bp(get(call.answers, "Current Blood Pressure Reading:"))
            sys_tier == IF bp[1][1] >= 160 THEN 3 ELSE IF bp[1][1] >= 140 THEN 2 ELSE 1
            dia_tier == IF bp[2][1] >= 100 THEN 3 ELSE IF bp[2][1] >= 90 THEN 2 ELSE 1
        IN  IF IsNull(bp[1]) \/ IsNull(bp[2])
            THEN result[1].level = 1 /\ IsNull(result[1].metrics.bp)
            ELSE result[1].level = IF sys_tier >= dia_tier THEN sys_tier ELSE dia_tier

\* 165/95: the systolic tier gives level 3 where the diastolic alone gives 2
HbpSystolicRuleFires ==
    /\ call.fn = "_classify_hbp"
    /\ get(call.answers, "Current Blood Pressure Reading:") = Str("165/95")
    /\ ~IsNull(result)
    /\ result[1].level = 3
    /\ result[1].metrics.bp = Some("165/95")

\* C16: every result of assess_level has a level in 1..3 and the label the
\* fixed mapping gives that level (1 mild, 2 moderate, 3 severe).
AssessedLabelMatchesLevel ==
    (call.fn = "assess_level" /\ ~IsNull(result)) =>
        /\ result[1].level \in { 1, 2, 3 }
        /\ result[1].label = LevelLabel(result[1].level)

_filter_allergies_whole_name(pool, allergy_kws) ==
    SelectSeq(pool, LAMBDA it : lower(it.name) \notin allergy_kws)

_filter_allergies(pool, allergy_kws) ==
    LET RECURSIVE loop(_, _)
        loop(k, out) ==
            IF k > Len(pool) THEN out
            ELSE LET name == lower(pool[k].name)
                 IN  IF \E kw \in allergy_kws : contains(name, kw)
                     THEN loop(k + 1, out)
                     ELSE loop(k + 1, Append(out, pool[k]))
    IN  IF allergy_kws = {} THEN pool ELSE loop(1, << >>)

KeywordChoices == { "egg", "fish", "spinach", "grilled", "tilapia", "peanut" }

FilterPools ==
    << << >>,
       << [id |-> 1, name |-> "Grilled Eggs", tags |-> << "protein" >>],
          [id |-> 2, name |-> "Roasted Eggplant-base", tags |-> << "veg" >>],
          [id |-> 3, name |-> "Steamed spinach (efo)", tags |-> << "veg" >>],
          [id |-> 4, name |-> "Grilled Eggs", tags |-> << "protein" >>],
          [id |-> 5, name |-> "Smoked catfish", tags |-> << "protein" >>] >>,
       SubSeq(hundred_meals, 1, 10),
       SubSeq(hundred_meals, 101, 117) >>

CatalogCategories == { "diabetes", "hbp", "weight", "detox", "keto" }

RiceOil == [l \in {AllergyLabel} |-> "rice; olive oil"]

PlanAnswers == AnswerChoices \cup { RiceOil }

\* selections of catalog ids: none, one item of every class, a selection
\* without carbohydrate and fat, several items of a class, and a lone
\* carbohydrate
PlanSelections ==
    << << >>, << 1, 101, 201, 301 >>, << 2, 8, 120 >>,
       << 1, 2, 3, 101, 102, 103, 201, 202, 301, 302 >>, << 201 >> >>

GenerateHundredMeals ==
    /\ call.fn = "generate_hundred_meals"
    /\ IsNull(result)
    /\ result' = Some(generate_hundred_meals)
    /\ UNCHANGED << submissions, meal_plans, payments, ever_paid, inflight, call >>

FilterAllergies ==
    /\ call.fn = "_filter_allergies"
    /\ IsNull(result)
    /\ result' = Some(_filter_allergies(call.pool, call.allergy_kws))
    /\ UNCHANGED << submissions, meal_plans, payments, ever_paid, inflight, call >>

GenerateTwoDayPlan ==
    /\ call.fn = "generate_two_day_plan"
    /\ IsNull(result)
    /\ result' = Some(generate_two_day_plan(call.category, call.selected_meals,
                                            call.answers, call.assessment))
    /\ UNCHANGED << submissions, meal_plans, payments, ever_paid, inflight, call >>

GenerateMonthPlan ==
    /\ call.fn = "generate_month_plan"
    /\ IsNull(result)
    /\ result' = Some(generate_month_plan(call.category, call.selected_meals,
                                          call.answers, call.assessment))
    /\ UNCHANGED << submissions, meal_plans, payments, ever_paid, inflight, call >>

InitMeals ==
    /\ submissions = << >>
    /\ meal_plans = << >>
    /\ payments = << >>
    /\ ever_paid = {}
    /\ inflight = [w \in Workers |-> Idle]
    /\ result = Null
    /\ \/ \E category \in CatalogCategories, answers \in PlanAnswers :
            call = [fn |-> "generate_hundred_meals", category |-> category,
                    answers |-> answers]
       \/ \E p \in DOMAIN FilterPools, kws \in SUBSET KeywordChoices :
            call = [fn |-> "_filter_allergies", pool |-> FilterPools[p], allergy_kws |-> kws]
       \/ \E fn \in { "generate_two_day_plan", "generate_month_plan" },
             s \in DOMAIN PlanSelections, answers \in PlanAnswers, l \in 1..3 :
            call = [fn |-> fn, category |-> "diabetes",
                    selected_meals |-> SelectedMeals(PlanSelections[s]),
                    answers |-> answers, assessment |-> Assessment("diabetes", l)]

NextMeals ==
    \/ GenerateHundredMeals
    \/ FilterAllergies
    \/ GenerateTwoDayPlan
    \/ GenerateMonthPlan

SpecMeals == InitMeals /\ [][NextMeals]_vars

FilterRemovesExactlyKeywordMatches ==
    (call.fn = "_filter_allergies" /\ ~IsNull(result)) =>
        LET pool == call.pool
            out == result[1]
            keep == { k \in 1..Len(pool) :
                        \A kw \in call.allergy_kws : ~contains(lower(pool[k].name), kw) }
            \* the position in the pool of the j-th kept item
            nth(j) == CHOOSE k \in keep : Cardinality({ i \in keep : i <= k }) = j
        IN  /\ Len(out) = Cardinality(keep)
            /\ \A j \in 1..Len(out) : out[j] = pool[nth(j)]
            /\ call.allergy_kws = {} => out = pool
            /\ "egg" \in call.allergy_kws =>
                    \A j \in 1..Len(out) :
                        out[j].name \notin { "Grilled Eggs", "Roasted Eggplant-base" }

\* "egg" removes both egg-named items and the eggplant and keeps the rest in
\* order
EggRemovesEggsAndEggplant ==
    /\ call.fn = "_filter_allergies"
    /\ call.allergy_kws = { "egg" }
    /\ call.pool = FilterPools[2]
    /\ result = Some(<< FilterPools[2][3], FilterPools[2][5] >>)

\* C20: in every day of the preview and of the full plan, breakfast and dinner
\* are one protein, one vegetable and one fat taken from their pools at the
\* cyclic indices i, 2i and 3i and name no carbohydrate of the pool, and lunch
\* is one carbohydrate of the pool with one protein and one vegetable; every
\* pool is non-empty after allergy filtering and backfilling.
MealsComposedFromClassPools ==
    (call.fn \in { "generate_two_day_plan", "generate_month_plan" } /\ ~IsNull(result)) =>
        LET kws == _allergy_keywords_from_answers(call.answers)
            pools == IF call.fn = "generate_two_day_plan"
                     THEN TwoDayPools(call.selected_meals, kws)
                     ELSE MonthPools(call.selected_meals, kws)
            at(pool, i) == pool[(i % Len(pool)) + 1].name
            zero_carb(text) ==
                /\ \E i \in 0..(MonthDays + DinnerOffset + MaxShift) :
                        text = at(pools.proteins, i) \o " with " \o lower(at(pools.vegs, 2 * i))
                                    \o " (" \o at(pools.fats, 3 * i) \o ")"
                /\ \A c \in 1..Len(pools.carbs) :
                        ~contains(lower(text), lower(pools.carbs[c].name))
            one_carb(text) ==
                \E c \in 1..Len(pools.carbs), p \in 1..Len(pools.proteins),
                   v \in 1..Len(pools.vegs) :
                        text = pools.carbs[c].name \o " with " \o lower(pools.proteins[p].name)
                                    \o " and " \o lower(pools.vegs[v].name)
        IN  /\ Len(pools.proteins) > 0 /\ Len(pools.vegs) > 0
            /\ Len(pools.fats) > 0 /\ Len(pools.carbs) > 0
            /\ \A d \in 1..Len(result[1].days) :
                    /\ zero_carb(result[1].days[d].breakfast)
                    /\ zero_carb(result[1].days[d].dinner)
                    /\ one_carb(result[1].days[d].lunch)

\* a full plan for a selection whose only protein the allergy filter removed:
\* the protein pool was backfilled with the safe defaults
BackfilledPoolsFeedMonthPlan ==
    /\ call.fn = "generate_month_plan"
    /\ call.selected_meals = SelectedMeals(<< 1, 101, 201, 301 >>)
    /\ call.answers = EggFish
    /\ ~IsNull(result)
    /\ Len(result[1].days) = MonthDays
    /\ result[1].days[1].breakfast = "Grilled chicken with steamed spinach (efo) (Avocado (half))"
    /\ result[1].days[2].breakfast = "Boiled chicken with steamed spinach (efo) (Avocado (half))"

(***************************************************************************)
(* The loop of generate_month_plan seen from its result: the triplets the   *)
(* loop had in `seen` when it reached index i are those of the days before, *)
(* and the shift it settled on is recomputed from them.                    *)
(***************************************************************************)
TripletOf(d) == << d.breakfast, d.lunch, d.dinner >>

ShiftOfDay(i) ==
    ShiftUntilNew(MonthPools(call.selected_meals, _allergy_keywords_from_answers(call.answers)),
                  portion_prefix(AssessmentLevel(call.assessment)), i, 0,
                  { TripletOf(result[1].days[k]) : k \in 1..i })

\* C21: generate_month_plan returns, for every selection, answer set and
\* assessment, exactly 30 day entries whose day fields are 1..30 in order,
\* each with the three fixed herbal-tea snacks, and the uniqueness resampling
\* of any one day performs at most 10 shifts.
MonthPlanIsThirtyNumberedDays ==
    (call.fn = "generate_month_plan" /\ ~IsNull(result)) =>
        /\ Len(result[1].days) = 30
        /\ \A k \in 1..Len(result[1].days) :
                /\ result[1].days[k].day = k
                /\ result[1].days[k].snacks =
                        << "Herbal tea (morning)", "Herbal tea (with lunch)", "Herbal tea (night)" >>
                /\ ShiftOfDay(k - 1) \in 0..10

\* a full plan for the empty selection, whose third day used up the ten shifts
ShiftBudgetExhausted ==
    /\ call.fn = "generate_month_plan"
    /\ call.selected_meals = << >>
    /\ ~IsNull(result)
    /\ Len(result[1].days) = 30
    /\ ShiftOfDay(2) = 10

\* C22: in the result of generate_month_plan, for every selection of catalog
\* items (the empty selection included), no two days have the same
\* (breakfast, lunch, dinner) triplet.
MonthPlanDaysPairwiseDistinct ==
    (call.fn = "generate_month_plan" /\ ~IsNull(result)) =>
        \A j, k \in 1..Len(result[1].days) :
            j # k => TripletOf(result[1].days[j]) # TripletOf(result[1].days[k])

\* C25: within each of the four 100-item class pools of the generated catalog
\* the item names are pairwise distinct.
CatalogNamesDistinctWithinPool ==
    (call.fn = "generate_hundred_meals" /\ ~IsNull(result)) =>
        \A pool \in 0..3 :
            \A j, k \in (100 * pool + 1)..(100 * pool + 100) :
                j # k => result[1][j].name # result[1][k].name

\* C29: for every selection drawn from the catalog and every answer set,
\* generate_month_plan and generate_two_day_plan return the same plan for the
\* assessment levels 1, 2 and 3: every carbohydrate name of the catalog
\* already contains a portion phrase, so none is prefixed again.
PlansIndependentOfLevel ==
    (call.fn \in { "generate_two_day_plan", "generate_month_plan" } /\ ~IsNull(result)) =>
        /\ \A k \in 1..Len(hundred_meals) :
                has(hundred_meals[k], "carb") =>
                    contains(lower(hundred_meals[k].name), "portion of")
        /\ \A l \in 1..3 :
                result[1] =
                    IF call.fn = "generate_month_plan"
                    THEN generate_month_plan(call.category, call.selected_meals, call.answers,
                                             Assessment(call.category, l))
                    ELSE generate_two_day_plan(call.category, call.selected_meals,
                                               call.answers, Assessment(call.category, l))

\* a full plan at level 2 (prefix "small portion of") whose second lunch is the
\* catalog's "Moderate portion of ofada rice", left as it is
ModeratePortionKeptAtLevelTwo ==
    /\ call.fn = "generate_month_plan"
    /\ call.assessment.level = 2
    /\ call.selected_meals = SelectedMeals(<< 1, 2, 3, 101, 102, 103, 201, 202, 301, 302 >>)
    /\ ~IsNull(result)
    /\ result[1].days[2].lunch =
            "Moderate portion of ofada rice with baked chicken breast and steamed spinach (efo)"

(***************************************************************************)
(* Further properties of the request workflow.  Every complete submission  *)
(* appends one SurveySubmission and one MealPlan, so the submission that    *)
(* created bundle b is submissions[b].                                      *)
(***************************************************************************)

\* C26: once a bundle's Payment has status PAID, no later operation changes
\* its status to another value or replaces its reference.
PaidPaymentNeverChanges ==
    [][\A b \in 1..Len(payments) :
            (~IsNull(payments[b]) /\ payments[b][1].status = PAID) =>
                /\ ~IsNull(payments'[b])
                /\ payments'[b][1].status = PAID
                /\ payments'[b][1].reference = payments[b][1].reference]_vars

\* C27: whenever a preview or a 30-day plan is written to a bundle, it is the
\* plan generated from the answers of the submission that created the bundle,
\* whatever the same profile submitted for the category afterwards.
PlansUseCreatingSubmission ==
    [][\A b \in 1..Len(meal_plans) :
            /\ meal_plans'[b].free_plan # meal_plans[b].free_plan =>
                    meal_plans'[b].free_plan =
                        Some(two_day_plan(meal_plans[b].category,
                                          SelectedMeals(meal_plans'[b].selected_meal_ids),
                                          submissions[b].answers, meal_plans[b].assessment))
            /\ (/\ meal_plans'[b].paid_plan # meal_plans[b].paid_plan
                /\ Len(meal_plans'[b].paid_plan[1].days) = MonthDays) =>
                    meal_plans'[b].paid_plan =
                        Some(month_plan(meal_plans[b].category,
                                        SelectedOrFirstTen(meal_plans[b].selected_meal_ids),
                                        submissions[b].answers, meal_plans[b].assessment))]_vars

\* C30: once a bundle has a full plan, its selected_meal_ids, its preview and
\* its assessment never change again (its catalog is never written after the
\* submission), and SelectMeals on it reports success and writes nothing.
UnlockedBundleIsFrozen ==
    [][\A b \in 1..Len(meal_plans) :
            ~IsNull(meal_plans[b].paid_plan) =>
                /\ meal_plans'[b].selected_meal_ids = meal_plans[b].selected_meal_ids
                /\ meal_plans'[b].free_plan = meal_plans[b].free_plan
                /\ meal_plans'[b].assessment = meal_plans[b].assessment
                /\ \A g \in SelectInputs :
                        g.id = b =>
                            /\ SelectMealsResult(submissions, meal_plans, b,
                                                 g.selected_ids).status = 200
                            /\ SelectMealsResult(submissions, meal_plans, b,
                                                 g.selected_ids).meal_plans = meal_plans]_vars

\* a bundle unlocked before any preview was made: SelectMeals on it answers
\* 200 where it would otherwise generate and store a preview
SelectOnUnlockedBundleWithoutPreview ==
    /\ Len(meal_plans) >= 1
    /\ ~IsNull(meal_plans[1].paid_plan)
    /\ IsNull(meal_plans[1].free_plan)
    /\ IsNull(meal_plans[1].selected_meal_ids)
    /\ ~cross_free_exists(meal_plans, 1)
    /\ SelectMealsResult(submissions, meal_plans, 1, << 1, 101, 201, 301 >>).status = 200

(***************************************************************************)
(* The classifiers compared on answer sets that differ in one metric.      *)
(***************************************************************************)
\* the level of every answer set that differs from the call's only in the
\* answer under `label`, taken from `choices`, and gives a lower number there
LevelsBelow(classify(_), label, choices) ==
    IF label \in DOMAIN call.answers /\ ~IsNull(_to_number(call.answers[label]))
    THEN { classify([call.answers EXCEPT ![label] = v]).level :
             v \in { w \in choices \ { Absent } :
                       /\ ~IsNull(_to_number(w))
                       /\ _to_number(w)[1] < _to_number(call.answers[label])[1] } }
    ELSE {}

\* C28: the deterministic level never falls when one metric rises: an answer
\* set with a lower fasting blood sugar, a lower HbA1c or a lower directly
\* supplied BMI, everything else equal, never has a higher level.
LevelMonotoneInEachMetric ==
    /\ (call.fn = "_classify_diabetes" /\ ~IsNull(result)) =>
            /\ \A l \in LevelsBelow(_classify_diabetes,
                                    "Last known blood sugar reading (Fasting):", FbsChoices) :
                    l <= result[1].level
            /\ \A l \in LevelsBelow(_classify_diabetes,
                                    "Last known HbA1c (if tested):", Hba1cChoices) :
                    l <= result[1].level
    /\ (call.fn = "_classify_weight" /\ ~IsNull(result)) =>
            \A l \in LevelsBelow(_classify_weight, "Body Mass Index (BMI):", BmiChoices) :
                l <= result[1].level

(***************************************************************************)
(* utils/assessment.py: pick_recommended_meals and get_stage_template, the *)
(* two functions SubmitAnswersView calls on the catalog and the level to   *)
(* fill the response.  The em dash of the titles and the non-breaking      *)
(* hyphen and en dash of the texts are written "-".                        *)
(***************************************************************************)
Take(items, n) == SubSeq(items, 1, IF n < Len(items) THEN n ELSE Len(items))

pick_recommended_meals(category, level, meals, limit) ==
    LET proteins == SelectSeq(meals, LAMBDA it : has(it, "protein"))
        vegs     == SelectSeq(meals, LAMBDA it : has(it, "veg") \/ has(it, "vegetables"))
        fats     == SelectSeq(meals, LAMBDA it : has(it, "healthy-fat"))
        carbs    == SelectSeq(meals, LAMBDA it : has(it, "lunch-carb") \/ has(it, "carb"))
        deduped(rec) ==
            LET RECURSIVE loop(_, _, _)
                loop(k, seen_ids, out) ==
                    IF k > Len(rec) THEN out
                    ELSE IF rec[k].id \in seen_ids THEN loop(k + 1, seen_ids, out)
                    ELSE loop(k + 1, seen_ids \cup { rec[k].id },
                              Append(out, [id |-> rec[k].id, name |-> rec[k].name,
                                           tags |-> rec[k].tags]))
            IN  loop(1, {}, << >>)
        \* out[:limit]; a negative limit counts from the end
        trimmed(out) ==
            IF limit # 0 /\ Len(out) > limit
            THEN IF limit > 0 THEN SubSeq(out, 1, limit)
                 ELSE SubSeq(out, 1, IF Len(out) + limit > 0 THEN Len(out) + limit ELSE 0)
            ELSE out
        quotas(lvl) ==
            trimmed(deduped(Take(proteins, IF lvl >= 2 THEN 8 ELSE 6)
                            \o Take(vegs, 8)
                            \o Take(fats, 4)
                            \o Take(carbs, IF lvl = 1 THEN 6 ELSE IF lvl = 2 THEN 4 ELSE 2)))
    IN  quotas(IF level \in { 1, 2, 3 } THEN level ELSE 1)

KeywordSeparators == { "/", "|", "&", ";", "," } \cup Whitespace

\* the words of s between separators that have at least three characters
RECURSIVE split_words(_, _, _)
split_words(s, word, kws) ==
    IF Len(s) = 0
    THEN IF Len(word) >= 3 THEN kws \cup { word } ELSE kws
    ELSE IF CharAt(s, 1) \in KeywordSeparators
    THEN split_words(SubSeq(s, 2, Len(s)), "",
                     IF Len(word) >= 3 THEN kws \cup { word } ELSE kws)
    ELSE split_words(SubSeq(s, 2, Len(s)), word \o CharAt(s, 1), kws)

_allergy_keywords(a) ==
    UNION { split_words(lower(str(a[k])), "", {}) :
              k \in { l \in DOMAIN a : contains(lower(l), "allerg") } }

_split_catalog(items, allergy_kws) ==
    LET or_default(pool, name, tag) ==
            IF Len(pool) = 0 THEN << [name |-> name, tags |-> << tag >>] >> ELSE pool
    IN  [proteins |-> or_default(_filter_allergies(
                          SelectSeq(items, LAMBDA it : has(it, "protein")), allergy_kws),
                          "Grilled turkey (lean)", "protein"),
         vegs     |-> or_default(_filter_allergies(
                          SelectSeq(items, LAMBDA it : has(it, "veg") \/ has(it, "vegetables")),
                          allergy_kws),
                          "Steamed spinach (efo)", "veg"),
         fats     |-> or_default(_filter_allergies(
                          SelectSeq(items, LAMBDA it : has(it, "healthy-fat")), allergy_kws),
                          "Olive oil (1 tsp)", "healthy-fat"),
         carbs    |-> or_default(_filter_allergies(
                          SelectSeq(items, LAMBDA it : has(it, "lunch-carb") \/ has(it, "carb")),
                          allergy_kws),
                          "Small portion of brown rice", "lunch-carb")]

_choose(pool, i) == pool[(i % Len(pool)) + 1].name

_zero_carb(pools, i) ==
    _choose(pools.proteins, i) \o " with " \o lower(_choose(pools.vegs, i * 2))
        \o " (" \o _choose(pools.fats, i * 3) \o ")"

_lunch(pools, i, prefix) ==
    (IF ~contains(lower(_choose(pools.carbs, i)), "portion of")
     THEN prefix \o " " \o _choose(pools.carbs, i)
     ELSE _choose(pools.carbs, i))
        \o " with " \o lower(_choose(pools.proteins, i + 1))
        \o " and " \o lower(_choose(pools.vegs, i + 2))

_snack(pools, i) == "Herbal tea; " \o _choose(pools.fats, i)

\* early_morning is Null for the parameter's default None
pack(title, breakfast, lunch, snack, dinner, recommendation, early_morning) ==
    [title |-> title, breakfast |-> breakfast, lunch |-> lunch, snack |-> snack,
     dinner |-> dinner, recommendation |-> recommendation]
        @@ (IF ~IsNull(early_morning) /\ early_morning[1] # ""
            THEN [early_morning |-> early_morning[1]]
            ELSE << >>)

\* the branch `if cat == "diabetes"` for a level already brought into 1..3
diabetes_template(lvl, pools) ==
    IF lvl = 1
    THEN pack("LEVEL 1 - MILD (Pre-diabetes)",
              _zero_carb(pools, 0) \o "; or vegetable smoothie + protein; or a slice of bread with vegetables and protein; low-carb English breakfast",
              _lunch(pools, 0, "moderate portion of"),
              _snack(pools, 0),
              _zero_carb(pools, 1),
              << "Avoid refined sugar and flour.", "Exercise 30 mins/day.",
                 "Check blood sugar weekly." >>,
              Some("Early morning hours (6am-8am) a cup of tea"))
    ELSE IF lvl = 2
    THEN pack("LEVEL 2 - MODERATE",
              _zero_carb(pools, 2),
              _lunch(pools, 1, "small portion of"),
              _snack(pools, 1),
              _zero_carb(pools, 3),
              << "Control carbohydrate portions.", "Avoid fried foods.",
                 "Maintain regular mealtime." >>,
              Null)
    ELSE pack("LEVEL 3 - SEVERE",
              _zero_carb(pools, 4),
              _lunch(pools, 2, "small portion of"),
              _snack(pools, 2),
              _zero_carb(pools, 5),
              << "Include 1 day of fasting with vegetable smoothies + protein and vegetable salad weekly.",
                 "Strict low-GI diet.", "Avoid sugary fruits & processed food.",
                 "Regular doctor review." >>,
              Null)

LevelWord(lvl) == IF lvl = 1 THEN "MILD" ELSE IF lvl = 2 THEN "MODERATE" ELSE "SEVERE"

\* fault: the aligned template handing on the early-morning line as well
aligned_template_with_early_morning(lvl, pools, prefix, dia, snack, recs) ==
    pack("LEVEL " \o ToString(lvl) \o " - " \o LevelWord(lvl),
         dia.breakfast, dia.lunch, snack, dia.dinner, recs,
         IF "early_morning" \in DOMAIN dia THEN Some(dia.early_morning) ELSE Null)

\* the pack(...) that ends the hypertension and the weight branch
aligned_template(lvl, pools, prefix, dia, snack, recs) ==
    pack("LEVEL " \o ToString(lvl) \o " - " \o LevelWord(lvl),
         IF "breakfast" \in DOMAIN dia THEN dia.breakfast ELSE _zero_carb(pools, 0),
         IF "lunch" \in DOMAIN dia THEN dia.lunch ELSE _lunch(pools, 0, prefix),
         snack,
         IF "dinner" \in DOMAIN dia THEN dia.dinner ELSE _zero_carb(pools, 1),
         recs, Null)

get_stage_template(category, level, meals, answers) ==
    LET by_level(cat, lvl, pools, prefix) ==
            LET aligned(dia, snack, recs) ==
                    aligned_template(lvl, pools, prefix, dia, snack, recs)
                dia_snack(dia) ==
                    IF "snack" \in DOMAIN dia THEN dia.snack ELSE _snack(pools, 0)
                hbp(dia) ==
                    aligned(dia, dia_snack(dia),
                        IF lvl = 1
                        THEN << "Reduce salt and processed foods.",
                                "Hydrate well.(3-4liters of water daily)",
                                "Engage in regular walks. (90 minutes daily)" >>
                        ELSE IF lvl = 2
                        THEN << "Include turmeric probiotics elixir & probiotic vegetable to daily diet",
                                "includ tea to each meal", "Monitor BP daily." >>
                        ELSE << "Strict low-sodium, low-fat plan.",
                                "Avoid canned foods & red meat.",
                                "Include probiotic turmeric elixir and probiotic vegetables.",
                                "Tea should be made with Herbiscus, ginger & cinnamon.",
                                "Regular follow-up care." >>)
                weight(dia) ==
                    aligned(dia, IF lvl = 3 THEN "Herbal tea" ELSE dia_snack(dia),
                        IF lvl = 1
                        THEN << "Portion control (reduce serving size by 25%).",
                                "Avoid late-night meals.", "Walk 30-45 mins/day." >>
                        ELSE IF lvl = 2
                        THEN << "Eliminate fried foods & sugary drinks.",
                                "Drink warm water before meals.", "Track weekly progress." >>
                        ELSE << "Strict calorie restriction.", "No sugar, flour, or alcohol.",
                                "Medical supervision advised." >>)
            IN  IF cat = "diabetes" THEN diabetes_template(lvl, pools)
                ELSE IF cat \in { "hbp", "high blood pressure", "hypertension" }
                THEN hbp(diabetes_template(lvl, pools))
                ELSE IF cat \in { "weight", "weight management", "obesity" }
                THEN weight(diabetes_template(lvl, pools))
                ELSE [title |-> "General wellness template",
                      breakfast |-> _zero_carb(pools, 0),
                      lunch |-> _lunch(pools, 0, "moderate portion of"),
                      snack |-> _snack(pools, 0),
                      dinner |-> _zero_carb(pools, 1),
                      recommendation |-> << "Hydrate well.", "Avoid ultra-processed foods." >>]
        normalised(lvl) ==
            by_level(lower(category), lvl, _split_catalog(meals, _allergy_keywords(answers)),
                     IF lvl = 1 THEN "moderate portion of" ELSE "small portion of")
    IN  normalised(IF level \in { 1, 2, 3 } THEN level ELSE 1)

(***************************************************************************)
(* Calls of pick_recommended_meals and get_stage_template.                 *)
(***************************************************************************)
\* a catalog with an item of two classes, a repeated id, a tag in capitals
\* and a carbohydrate named without a portion phrase
OddCatalog ==
    << [id |-> 1, name |-> "Grilled eggs", tags |-> << "protein" >>],
       [id |-> 2, name |-> "Beans (boiled)", tags |-> << "protein", "carb" >>],
       [id |-> 2, name |-> "Beans (stewed)", tags |-> << "carb" >>],
       [id |-> 3, name |-> "Boiled yam", tags |-> << "Carb" >>],
       [id |-> 4, name |-> "Okra", tags |-> << "veg" >>],
       [id |-> 5, name |-> "Avocado (half)", tags |-> << "healthy-fat" >>] >>

GuidanceCatalogs == << hundred_meals, << >>, OddCatalog, SubSeq(hundred_meals, 1, 205) >>

GuidanceLevels == 0..4

Limits == { -3, 0, 1, 5, 24, 30 }

TemplateCategories ==
    { "diabetes", "hbp", "Hypertension", "high blood pressure", "weight", "Obesity", "detox" }

TemplateAnswers ==
    << << >>,
       AllergyLabel :> Str("None"),
       AllergyLabel :> Str("Egg, fish"),
       AllergyLabel :> Str("okra/avocado; yam & beans|egg") >>

PickRecommendedMeals ==
    /\ call.fn = "pick_recommended_meals"
    /\ IsNull(result)
    /\ result' = Some(pick_recommended_meals(call.category, call.level, call.hundred_meals,
                                             call.limit))
    /\ UNCHANGED << submissions, meal_plans, payments, ever_paid, inflight, call >>

GetStageTemplate ==
    /\ call.fn = "get_stage_template"
    /\ IsNull(result)
    /\ result' = Some(get_stage_template(call.category, call.level, call.hundred_meals,
                                         call.answers))
    /\ UNCHANGED << submissions, meal_plans, payments, ever_paid, inflight, call >>

InitGuidance ==
    /\ submissions = << >>
    /\ meal_plans = << >>
    /\ payments = << >>
    /\ ever_paid = {}
    /\ inflight = [w \in Workers |-> Idle]
    /\ result = Null
    /\ \/ \E category \in { "diabetes", "weight" }, level \in GuidanceLevels,
             c \in DOMAIN GuidanceCatalogs, limit \in Limits :
            call = [fn |-> "pick_recommended_meals", category |-> category, level |-> level,
                    hundred_meals |-> GuidanceCatalogs[c], limit |-> limit]
       \/ \E category \in TemplateCategories, level \in GuidanceLevels,
             c \in DOMAIN GuidanceCatalogs, a \in DOMAIN TemplateAnswers :
            call = [fn |-> "get_stage_template", category |-> category, level |-> level,
                    hundred_meals |-> GuidanceCatalogs[c], answers |-> TemplateAnswers[a]]

NextGuidance ==
    \/ PickRecommendedMeals
    \/ GetStageTemplate

SpecGuidance == InitGuidance /\ [][NextGuidance]_vars

\* C23: pick_recommended_meals returns the first N items of each class in the
\* order protein, vegetable, fat, carbohydrate, N being 8 proteins from level 2
\* and 6 below, 8 vegetables, 4 fats and 6/4/2 carbohydrates for level 1/2/3
\* (any other level counting as 1), no id twice, and at most `limit` items for
\* every limit from 0 up.
RecommendedMealsWithinQuotaAndLimit ==
    (call.fn = "pick_recommended_meals" /\ ~IsNull(result)) =>
        LET lvl == IF call.level \in 1..3 THEN call.level ELSE 1
            class(tags) == SelectSeq(call.hundred_meals,
                                     LAMBDA it : \E t \in tags : has(it, t))
            first(items, n) == [k \in 1..(IF n < Len(items) THEN n ELSE Len(items)) |-> items[k]]
            wanted == first(class({ "protein" }), IF lvl >= 2 THEN 8 ELSE 6)
                        \o first(class({ "veg", "vegetables" }), 8)
                        \o first(class({ "healthy-fat" }), 4)
                        \o first(class({ "lunch-carb", "carb" }), CASE lvl = 1 -> 6
                                                                    [] lvl = 2 -> 4
                                                                    [] lvl = 3 -> 2)
            \* the positions of wanted that hold the first item with their id
            kept == { k \in 1..Len(wanted) : \A j \in 1..(k - 1) : wanted[j].id # wanted[k].id }
            out == result[1]
        IN  /\ \A j, k \in 1..Len(out) : j # k => out[j].id # out[k].id
            /\ call.limit >= 0 => Len(out) <= call.limit
            /\ Len(out) <= Cardinality(kept)
            /\ \A n \in 1..Len(out) :
                    \E k \in kept :
                        /\ Cardinality({ j \in kept : j <= k }) = n
                        /\ out[n] = wanted[k]
            /\ (call.limit >= Cardinality(kept)) => Len(out) = Cardinality(kept)

\* C24 as stated: the hypertension and weight templates differ from the
\* diabetes template of the same level only in recommendation and, for weight
\* level 3, in the snack, which is "Herbal tea"; every other key is the same.
TemplateDiffersOnlyInAdvice ==
    (/\ call.fn = "get_stage_template"
     /\ lower(call.category) \in { "hbp", "high blood pressure", "hypertension",
                                   "weight", "weight management", "obesity" }
     /\ ~IsNull(result)) =>
        LET dia == get_stage_template("diabetes", call.level, call.hundred_meals, call.answers)
            heavy == /\ lower(call.category) \in { "weight", "weight management", "obesity" }
                     /\ call.level = 3
            free == { "recommendation" } \cup (IF heavy THEN { "snack" } ELSE {})
        IN  /\ \A key \in (DOMAIN dia \cup DOMAIN result[1]) \ free :
                    /\ key \in DOMAIN dia
                    /\ key \in DOMAIN result[1]
                    /\ result[1][key] = dia[key]
            /\ heavy => result[1].snack = "Herbal tea"

\* C24, amended: the hypertension and weight templates take breakfast, lunch
\* and dinner, and the snack except for weight level 3 ("Herbal tea"), from
\* the diabetes template of the same level; they have exactly the six keys
\* title, breakfast, lunch, snack, dinner and recommendation, so the
\* early_morning line of diabetes level 1 is left out, and their title is
\* "LEVEL n - MILD/MODERATE/SEVERE", which is the diabetes title at levels 2
\* and 3 only.
TemplateMealsFollowDiabetes ==
    (/\ call.fn = "get_stage_template"
     /\ lower(call.category) \in { "hbp", "high blood pressure", "hypertension",
                                   "weight", "weight management", "obesity" }
     /\ ~IsNull(result)) =>
        LET dia == get_stage_template("diabetes", call.level, call.hundred_meals, call.answers)
            lvl == IF call.level \in 1..3 THEN call.level ELSE 1
            heavy == /\ lower(call.category) \in { "weight", "weight management", "obesity" }
                     /\ lvl = 3
        IN  /\ result[1].breakfast = dia.breakfast
            /\ result[1].lunch = dia.lunch
            /\ result[1].dinner = dia.dinner
            /\ result[1].snack = IF heavy THEN "Herbal tea" ELSE dia.snack
            /\ DOMAIN result[1] =
                    { "title", "breakfast", "lunch", "snack", "dinner", "recommendation" }
            /\ DOMAIN dia \ DOMAIN result[1] = IF lvl = 1 THEN { "early_morning" } ELSE {}
            /\ result[1].title = "LEVEL " \o ToString(lvl) \o " - "
                                    \o (CASE lvl = 1 -> "MILD" [] lvl = 2 -> "MODERATE"
                                          [] lvl = 3 -> "SEVERE")
            /\ (result[1].title = dia.title) <=> (lvl # 1)
            /\ result[1].recommendation # dia.recommendation

\* the hypertension template of level 1 for the whole catalog: the meals of
\* the diabetes template under its own title and without the early-morning tea
HypertensionLevelOneTemplate ==
    /\ call.fn = "get_stage_template"
    /\ call.category = "Hypertension"
    /\ call.level = 1
    /\ call.hundred_meals = hundred_meals
    /\ ~IsNull(result)
    /\ result[1].title = "LEVEL 1 - MILD"
    /\ result[1].lunch = "Small portion of brown rice with roasted egg whites and stir-fried soko (celosia)"
    /\ "early_morning" \notin DOMAIN result[1]
    /\ "early_morning" \in DOMAIN get_stage_template("diabetes", 1, hundred_meals,
                                                      call.answers)

====
